---------------------------- MODULE Spec2Model ----------------------------
(***************************************************************************)
(* Model of the incremental synchronisation engine of the stock data      *)
(* collector: scripts/daily_ohlcv_syncer.py (DailyOHLCVSyncer) and         *)
(* scripts/smart_yahoo_syncer.py (SmartYahooSyncer).                       *)
(*                                                                         *)
(* Conventions                                                             *)
(*   - Prices are integers in hundredths of a rupee (100.0 is 10000), so   *)
(*     that the relative delta abs(db - yahoo) / db and its comparison     *)
(*     with the tolerance 0.01 are exact: diff > tol is decided by         *)
(*     cross-multiplication.                                               *)
(*   - A Python value that may be None is encoded, see NONE and Nothing.   *)
(*   - A calendar day is a natural number.  A Python datetime.date and a  *)
(*     Python datetime.datetime are records tagged with their type,        *)
(*     because Python (and the pandas hash table behind Index.isin) never  *)
(*     finds a date equal to a datetime.                                   *)
(***************************************************************************)
EXTENDS Integers, Sequences, FiniteSets, Bags, TLC

VARIABLES
    \* ---- the harness of validate_ohlcv_data (SpecValidate)
    v_db,        \* argument db_data
    v_yahoo,     \* argument yahoo_data
    v_result,    \* "pending", or the value returned
    \* ---- the store
    daily_prices,   \* table daily_prices: a bag of rows [stock_id, date, q]
    \* ---- the harness of save_ohlcv_data (SpecUpsert)
    u_pc,        \* "idle" (not used), "call", "done"
    u_stock,     \* argument stock_id
    u_data,      \* argument data: the candidate batch
    u_before,    \* daily_prices when the call was made
    u_returned,  \* the count returned
    u_failed,    \* whether the storage raised during the call
    \* ---- the clock and the rest of the store
    now,            \* the time, in seconds
    sync_tracker,   \* table sync_tracker: a set of rows
    \* ---- DailyOHLCVSyncer
    db_aborted,     \* self.db: a statement raised and no rollback was issued since
    run_pc,         \* sync_all_stocks: "idle", "loop", "commit", "done", "aborted"
    run_i,          \* the position (from 1) of the stock being processed
    validate_only,  \* the argument validate_only
    success_count,
    failed_count,
    commits,        \* the batch commits made by the run
    pc,             \* sync_stock_ohlcv: "none", "start", "fetch", "validate",
                    \*   "delete", "refetch", "save", "track", "except",
                    \*   "return", "raised"
    stock,          \* stock.id of the sync in progress, 0 when none
    latest_db_data,
    start_date,     \* in seconds
    yahoo_data,     \* Nothing, or Some(frame)
    saved_count,
    ret,            \* the (success, message) returned: [success, message]
    \* ---- what happened during the sync in progress (history)
    h_rows0,        \* daily_prices when the sync began
    h_tracker0,     \* sync_tracker when the sync began
    h_validation,   \* "none", "pass", "fail": what validate_ohlcv_data returned
    h_refresh,      \* "none", "deleted", "rebuilt", "refetch_failed"
    h_new,          \* a fetch returned a row of a day not stored when the sync began
    h_fetch_errors, \* the stocks of this run whose fetch raised
    h_db_errors,    \* a storage call raised during this run
    syncs,          \* the syncs begun so far
    \* ---- SmartYahooSyncer.smart_sync_ohlcv
    m_pc,           \* "none", "tracker", "fetch", "save", "update", "except",
                    \*   "return", "raised"
    m_stock,        \* stock_id of the call in progress, 0 when none
    m_start,        \* start_date, in seconds
    m_data,         \* historical_data: Nothing, or Some(frame)
    m_saved,        \* saved_count
    m_last_date,    \* last_date, NONE when None
    m_ret,          \* the count returned
    \* ---- SmartYahooSyncer.safe_db_operation (SpecRetry)
    r_pc,           \* "idle" (not used), "running", "returned", "raised",
                    \*   "returned_none" (the loop ended without a return)
    r_script,       \* what the storage does at each attempt, an input
    r_attempt,      \* attempt, from 0
    r_retry_delay,  \* retry_delay, in seconds
    r_outcomes,     \* the outcomes of the attempts made so far
    r_sleeps,       \* the delays slept so far
    \* ---- SmartYahooSyncer.smart_sync_news / _financials / _earnings
    records,        \* tables news, financial_statements, announcements: a set
                    \*   of rows [stock_id, data_type, block, key]
    g_pc,           \* "none", "op", "check", "fetch", "store", "commit",
                    \*   "after", "except", "return", "raised"
    g_type,         \* which sync is running: "news", "financials", "earnings"
    g_attempt,      \* attempt of safe_db_operation, from 0
    g_delay,        \* retry_delay of safe_db_operation, in seconds
    g_tracker,      \* tracker, the dictionary the operation read
    g_block,        \* which provider property the operation is at, from 1
    g_data,         \* the items the provider returned for the block
    g_pending,      \* rows added to the session and not committed
    g_saved,        \* saved_count
    g_latest,       \* latest date among the rows added, NONE when None
    g_used,         \* the operation's session has sent a statement
    g_broken,       \* a statement of the operation's session has failed
    g_ret,          \* the count returned, NONE before the return
    g_cache,        \* self.cache for the news key: Nothing, or
                    \*   Some([data, time])
    g_calls,        \* the calls made so far
    g_faults,       \* the storage and provider errors met so far
    \* history of the call in progress
    g_age,          \* utcnow() - tracker['last_sync_time'] when the
                    \*   operation last compared them, NONE before
    g_fetches,      \* provider properties read by this call
    g_rows0,        \* records when the call was made
    \* ---- quarterly results: SmartYahooSyncer.smart_sync_quarterly_results
    \* ---- and BSEQuarterlySyncer.save_quarterly_results
    quarterly_results,  \* table quarterly_results: a set of rows
                        \*   [stock_id, quarter, revenue, net_profit]
    q_pc,           \* "none", "tracker", "gate", "fetch", "save", "after",
                    \*   "except", "return", "raised"
    q_syncer,       \* "smart" or "bse": whose call is in progress
    q_tz,           \* datetime.now() - datetime.utcnow(), in seconds
    q_tracker,      \* tracker, the dictionary the sync read
    q_data,         \* quarterly_data: the provider's quarters
    q_saved,        \* saved_count
    q_latest,       \* latest_date, NONE when None
    q_ret,          \* the count returned, NONE before the return
    q_cache,        \* self.cache for the quarterly key
    q_calls,        \* the calls made so far
    \* history of the call in progress
    q_count,        \* quarterly_count when the sync decided, NONE before
    q_age,          \* utcnow() - last_sync_time when the sync decided
    q_passed,       \* the sync went on to the cache and the provider
    q_rows0,        \* quarterly_results when the call was made
    \* ---- the fetch cache of SmartYahooSyncer
    c_cache,        \* self.cache and self.cache_timestamps: the entries
                    \*   [key, data, time] in the order of the dictionaries
    c_ret,          \* what the last get_cached_data returned, <<>> for None
    c_ticks,        \* the times the clock has advanced
    \* history
    c_inserted,     \* per key: time.time() when the entry now cached was
                    \*   set, NONE when the key is not cached
    c_read,         \* per key: time.time() when the entry now cached was
                    \*   last returned, NONE when it never was
    c_last,         \* the last call: its name, its key, and what the cache
                    \*   held when it was made
    \* ---- the sync API (SpecApi)
    sync_status,    \* the module's dictionary of that name
    a_pc,           \* "free", or "task" while run_daily_sync holds the loop
    a_queue,        \* background tasks added and not yet started
    a_response,     \* status code of the last trigger's response, 0: none
    a_triggers,     \* requests handled
    a_now           \* datetime.now()

varsValidate == <<v_db, v_yahoo, v_result>>
varsStore == <<daily_prices>>
varsUpsert == <<u_pc, u_stock, u_data, u_before, u_returned, u_failed>>
varsClock == <<now>>
varsTracker == <<sync_tracker>>
varsRun == <<run_pc, run_i, validate_only, success_count, failed_count, commits>>
varsSync == <<db_aborted, pc, stock, latest_db_data, start_date, yahoo_data,
              saved_count, ret>>
varsHist == <<h_rows0, h_tracker0, h_validation, h_refresh, h_new,
              h_fetch_errors, h_db_errors, syncs>>
varsDaily == <<varsClock, varsTracker, varsRun, varsSync, varsHist>>

varsSmart == <<m_pc, m_stock, m_start, m_data, m_saved, m_last_date, m_ret>>

varsRetry == <<r_pc, r_script, r_attempt, r_retry_delay, r_outcomes, r_sleeps>>

varsGate == <<records, g_pc, g_type, g_attempt, g_delay, g_tracker, g_block,
              g_data, g_pending, g_saved, g_latest, g_used, g_broken, g_ret,
              g_cache, g_calls, g_faults, g_age, g_fetches, g_rows0>>

varsQuarterly == <<quarterly_results, q_pc, q_syncer, q_tz, q_tracker, q_data,
                   q_saved, q_latest, q_ret, q_cache, q_calls, q_count, q_age,
                   q_passed, q_rows0>>

varsCache == <<c_cache, c_ret, c_ticks, c_inserted, c_read, c_last>>
varsApi == <<sync_status, a_pc, a_queue, a_response, a_triggers, a_now>>

\* the variables of the harnesses, which no step of a syncer changes
varsHarness == <<varsValidate, varsUpsert, varsRetry>>

\* what no step of the daily syncer or of smart_sync_ohlcv changes
varsAside == <<varsHarness, varsGate, varsQuarterly, varsCache, varsApi>>

\* the variables of the syncers, which no step of a harness changes
varsSyncers == <<varsDaily, varsSmart, varsGate, varsQuarterly, varsCache, varsApi>>

vars == <<varsHarness, varsStore, varsSyncers>>

\* A number that may be None or NaN: None and NaN are the two negative codes
\* (prices and volumes are never negative).  An object that may be None
\* (db_data, a tracker, a fetched frame) is a sequence: <<>> for None, <<x>>
\* for the object x.
NONE == 0 - 1
NAN == 0 - 2
Nothing == <<>>
Some(x) == <<x>>

Abs(x) == IF x < 0 THEN 0 - x ELSE x

(***************************************************************************)
(* validate_ohlcv_data                                                     *)
(***************************************************************************)

\* self.validation_tolerance = 0.01, as the fraction ToleranceNum / ToleranceDen
ToleranceNum == 1
ToleranceDen == 100

\* the literal 0.1 of the volume check, as VolumeTolNum / VolumeTolDen
VolumeTolNum == 1
VolumeTolDen == 10

PriceFields == {"open", "high", "low", "close"}

\* abs(db_value - yahoo_value) / db_value > num / den, for numbers, db_value # 0.
\* A negative db_value makes the quotient negative, which exceeds nothing.
DiffExceedsGe(db_value, yahoo_value, num, den) ==
    /\ db_value > 0
    /\ Abs(db_value - yahoo_value) * den >= num * db_value

DiffExceeds(db_value, yahoo_value, num, den) ==
    /\ db_value > 0
    /\ Abs(db_value - yahoo_value) * den > num * db_value

\* One pass of the loop over the price fields: "pass" (continue or no
\* difference), "fail" (return False) or "raise" (an exception, which the
\* handler of the function turns into return False).
\*   float(None) raises TypeError before the None test is reached;
\*   a db_value of 0 raises ZeroDivisionError;
\*   a NaN remote value gives diff = nan, and nan > tolerance is False.
CheckPriceField(db_value, yahoo_value) ==
    IF yahoo_value = NONE THEN "raise"
    ELSE IF db_value = NONE THEN "pass"
    ELSE IF db_value = 0 THEN "raise"
    ELSE IF yahoo_value = NAN THEN "pass"
    ELSE IF DiffExceeds(db_value, yahoo_value, ToleranceNum, ToleranceDen)
         THEN "fail"
         ELSE "pass"

\* The volume check: made only when both volumes are truthy (not None, not 0;
\* NaN is truthy and int(NaN) raises ValueError).
CheckVolume(db_volume, yahoo_volume) ==
    IF db_volume = NONE \/ db_volume = 0 THEN "pass"
    ELSE IF yahoo_volume = NONE \/ yahoo_volume = 0 THEN "pass"
    ELSE IF yahoo_volume = NAN THEN "raise"
    ELSE IF DiffExceeds(db_volume, yahoo_volume, VolumeTolNum, VolumeTolDen)
         THEN "fail"
         ELSE "pass"

\* The value validate_ohlcv_data returns: every early return and the exception
\* handler return False, so the result is True exactly when no field fails or
\* raises.  yahoo_data is one row of the fetched frame (a Series, never empty).
validate_ohlcv_data(db_data, last_yahoo_data) ==
    IF db_data = Nothing THEN FALSE
    ELSE /\ \A f \in PriceFields :
              CheckPriceField(db_data[1][f], last_yahoo_data[f]) = "pass"
         /\ CheckVolume(db_data[1].volume, last_yahoo_data.volume) = "pass"

(***************************************************************************)
(* Dates.  The column DailyPrice.date is a DateTime: a value written from  *)
(* a datetime.date is stored as that day's midnight, and a value read back *)
(* is a datetime.datetime.  The index of a fetched frame holds pandas       *)
(* Timestamps, and x.date() of one is a datetime.date.                     *)
(***************************************************************************)
PyDate(day) == [type |-> "date", day |-> day]
PyDateTime(day) == [type |-> "datetime", day |-> day]

\* binding a Python date or datetime to a DateTime parameter or column
SqlTimestamp(pyvalue) == pyvalue.day

\* the Python value of a DateTime column of a result row
SqlResult(column) == PyDateTime(column)

(***************************************************************************)
(* The store: table daily_prices.  The model has no unique constraint on   *)
(* (stock_id, date) because the table has none, so the table is a bag.     *)
(***************************************************************************)

\* the quotes the provider serves: 100.00 throughout, and the same with a body
\* one unit past the 1% tolerance
QuoteA == [open |-> 10000, high |-> 10000, low |-> 10000, close |-> 10000,
           volume |-> 1000]
QuoteB == [open |-> 10000, high |-> 10101, low |-> 10000, close |-> 10101,
           volume |-> 1000]
Quotes == {QuoteA, QuoteB}

RowsOf(prices, stock_id) == {r \in BagToSet(prices) : r.stock_id = stock_id}

\* the number of rows of a stock, duplicates counted
CountOf(prices, stock_id) ==
    BagCardinality([r \in RowsOf(prices, stock_id) |-> prices[r]])

StoredDays(prices, stock_id) == {r.date : r \in RowsOf(prices, stock_id)}

StoreEmpty == daily_prices = EmptyBag

\* the variables of a harness or of a syncer that a specification does not use
ValidateUnused == v_db = Nothing /\ v_yahoo = QuoteA /\ v_result = "pending"

UpsertUnused ==
    /\ u_pc = "idle"
    /\ u_stock = 0
    /\ u_data = {}
    /\ u_before = EmptyBag
    /\ u_returned = 0
    /\ u_failed = FALSE

RetryUnused ==
    /\ r_pc = "idle"
    /\ r_script = <<>>
    /\ r_attempt = 0
    /\ r_retry_delay = 0
    /\ r_outcomes = <<>>
    /\ r_sleeps = <<>>

\* no call of smart_sync_news, _financials or _earnings in progress
GateIdle ==
    /\ g_pc = "none"
    /\ g_type = "news"
    /\ g_attempt = 0
    /\ g_delay = 0
    /\ g_tracker = Nothing
    /\ g_block = 0
    /\ g_data = {}
    /\ g_pending = {}
    /\ g_saved = 0
    /\ g_latest = NONE
    /\ g_used = FALSE
    /\ g_broken = FALSE
    /\ g_ret = NONE
    /\ g_age = NONE
    /\ g_fetches = 0
    /\ g_rows0 = {}

GateUnused ==
    /\ GateIdle
    /\ records = {}
    /\ g_cache = Nothing
    /\ g_calls = 0
    /\ g_faults = 0

\* no call of a quarterly sync in progress
QuarterlyIdle ==
    /\ q_pc = "none"
    /\ q_syncer = "smart"
    /\ q_tracker = Nothing
    /\ q_data = {}
    /\ q_saved = 0
    /\ q_latest = NONE
    /\ q_ret = NONE
    /\ q_count = NONE
    /\ q_age = NONE
    /\ q_passed = FALSE
    /\ q_rows0 = {}

QuarterlyUnused ==
    /\ QuarterlyIdle
    /\ quarterly_results = {}
    /\ q_tz = 0
    /\ q_cache = Nothing
    /\ q_calls = 0

\* the keys a fetch is cached under
CacheKeys == {1, 2, 3}

\* the last call, before any call
NoCall == [op |-> "none", key |-> 0, had |-> FALSE, age |-> NONE, len0 |-> 0,
           oldest |-> {}, gone |-> {}, gone_read |-> NONE]

\* lines 48-50: the cache of a new syncer
\* sync_status as the module defines it, before any request
SyncStatusAtImport ==
    [is_running |-> FALSE, last_run |-> NONE, last_success |-> NONE,
     error |-> NONE]

\* the sync API before any request
ApiUnused ==
    /\ sync_status = SyncStatusAtImport
    /\ a_pc = "free"
    /\ a_queue = 0
    /\ a_response = 0
    /\ a_triggers = 0
    /\ a_now = 0

CacheUnused ==
    /\ c_cache = <<>>
    /\ c_ret = Nothing
    /\ c_ticks = 0
    /\ c_inserted = [k \in CacheKeys |-> NONE]
    /\ c_read = [k \in CacheKeys |-> NONE]
    /\ c_last = NoCall

(***************************************************************************)
(* save_ohlcv_data.  A frame is a set of rows [date, q] with distinct      *)
(* dates (the index of a fetched frame).  The queries and the inserts run  *)
(* in slices of 1000; the slices partition the batch, so the union of the  *)
(* slices' results is the result for the whole batch.                      *)
(***************************************************************************)

\* dates_list = [date.date() for date in data.index]
dates_list(data) == {PyDate(r.date) : r \in data}

\* existing_dates: row[0] of the rows of the stock whose date is IN the batch
\* dates.  The database compares the column with the bound dates; the values
\* that come back are datetime objects.
existing_dates(prices, stock_id, data) ==
    {SqlResult(row.date) :
        row \in {x \in RowsOf(prices, stock_id) :
                    x.date \in {SqlTimestamp(d) : d \in dates_list(data)}}}

\* new_data = data[~data.index.map(lambda x: x.date()).isin(existing_dates)]:
\* isin looks each datetime.date up in a hash table of the datetime.datetime
\* objects, by Python's hash and ==.
new_data(prices, stock_id, data) ==
    {r \in data : PyDate(r.date) \notin existing_dates(prices, stock_id, data)}

\* bulk_data: one mapping per row of new_data, 'date': date.date()
bulk_data(prices, stock_id, data) ==
    {[stock_id |-> stock_id, date |-> SqlTimestamp(PyDate(r.date)), q |-> r.q] :
        r \in new_data(prices, stock_id, data)}

\* the table after bulk_insert_mappings of every slice and the commit
SavedPrices(prices, stock_id, data) ==
    prices (+) SetToBag(bulk_data(prices, stock_id, data))

\* total_saved
SavedCount(prices, stock_id, data) ==
    Cardinality(bulk_data(prices, stock_id, data))

(***************************************************************************)
(* Time.  The clock is in seconds; a calendar day is a natural number and  *)
(* day d begins at d * SecondsPerDay.  A stored date (a daily bar, a        *)
(* checkpoint's last_data_date) is the midnight that begins its day.        *)
(***************************************************************************)
SecondsPerDay == 86400

Midnight(day) == day * SecondsPerDay

\* the days of the model are 0 .. MaxDay
MaxDay == 1

\* timedelta(days=1825), the window of a complete fetch
FullWindowDays == 1825

\* ticker.history(start=start, end=end): the daily bars the provider may hold
\* in the window, start <= midnight of the bar < end
WindowDays(start, end) ==
    {d \in 0 .. MaxDay : start <= Midnight(d) /\ Midnight(d) < end}

\* The frames the provider may answer with: any subset of the days of the
\* window (the trading days it has), every bar with the same quote (a
\* revision of the series, such as an adjustment, changes all of it).
Responses(start, end) ==
    {{[date |-> d, q |-> q] : d \in D} :
        D \in SUBSET WindowDays(start, end), q \in Quotes}

\* yahoo_data.index[-1] and yahoo_data.loc[last_yahoo_date]
LastRow(data) == CHOOSE r \in data : \A x \in data : x.date <= r.date

(***************************************************************************)
(* Table sync_tracker: at most one row per (stock_id, data_type), which    *)
(* the table's unique constraint enforces.                                 *)
(***************************************************************************)
TrackerOf(trackers, stock_id, data_type) ==
    {t \in trackers : t.stock_id = stock_id /\ t.data_type = data_type}

TrackerRow(stock_id, data_type, time, last_data_date, records_count, status, error_message) ==
    [stock_id |-> stock_id, data_type |-> data_type, last_sync_time |-> time,
     last_data_date |-> last_data_date, records_count |-> records_count,
     sync_status |-> status, error_message |-> error_message]

\* the row is written without the count it is given
update_sync_tracker_uncounted(trackers, stock_id, time, last_data_date, records_count, status, error_message) ==
    (trackers \ TrackerOf(trackers, stock_id, "ohlcv"))
        \cup {TrackerRow(stock_id, "ohlcv", time, last_data_date, 0, status,
                         error_message)}

\* DailyOHLCVSyncer.update_sync_tracker, when the storage does not raise: the
\* row of (stock_id, 'ohlcv') is created or overwritten, and committed
update_sync_tracker(trackers, stock_id, time, last_data_date, records_count, status, error_message) ==
    (trackers \ TrackerOf(trackers, stock_id, "ohlcv"))
        \cup {TrackerRow(stock_id, "ohlcv", time, last_data_date,
                         records_count, status, error_message)}

(***************************************************************************)
(* DailyOHLCVSyncer.sync_stock_ohlcv, step by step.  self.db is one        *)
(* session for the whole run.  A statement that raises leaves the session  *)
(* unusable until a rollback when it failed inside the transaction, and    *)
(* usable when the failure was in reaching the database; both happen.      *)
(***************************************************************************)
NumStocks == 3

\* get_all_stocks(): the active stocks, by id
Stocks == 1 .. NumStocks

NoReturn == [success |-> FALSE, message |-> ""]

SyncIdle ==
    /\ pc = "none"
    /\ stock = 0
    /\ latest_db_data = Nothing
    /\ start_date = 0
    /\ yahoo_data = Nothing
    /\ saved_count = 0
    /\ ret = NoReturn

HistIdle ==
    /\ h_rows0 = EmptyBag
    /\ h_tracker0 = {}
    /\ h_validation = "none"
    /\ h_refresh = "none"
    /\ h_new = FALSE
    /\ syncs = 0

SmartIdle ==
    /\ m_pc = "none"
    /\ m_stock = 0
    /\ m_start = 0
    /\ m_data = Nothing
    /\ m_saved = 0
    /\ m_last_date = NONE
    /\ m_ret = 0

\* return (success, message)
Return(success, message) ==
    /\ pc' = "return"
    /\ ret' = [success |-> success, message |-> message]

\* the rows order_by(DailyPrice.date.desc()).first() may give
LatestRows(prices, stock_id) ==
    {r \in RowsOf(prices, stock_id) :
        \A x \in RowsOf(prices, stock_id) : x.date <= r.date}

\* lines 308-326, once latest_db_data is known
AfterLatest(latest) ==
    IF latest = Nothing
    THEN /\ start_date' = now - FullWindowDays * SecondsPerDay
         /\ pc' = "fetch"
         /\ ret' = ret
    ELSE IF validate_only
    THEN /\ start_date' = start_date
         /\ Return(TRUE, "Validation completed")
    ELSE /\ start_date' = Midnight(latest[1].date + 1)
         /\ IF start_date' >= now
            THEN Return(TRUE, "Data is up to date")
            ELSE pc' = "fetch" /\ ret' = ret

\* get_latest_ohlcv_data answers: the latest row, or None when there is none
GetLatest ==
    /\ pc = "start"
    /\ ~db_aborted
    /\ \/ /\ RowsOf(daily_prices, stock) = {}
          /\ latest_db_data' = Nothing
       \/ \E r \in LatestRows(daily_prices, stock) :
             latest_db_data' = Some([date |-> r.date] @@ r.q)
    /\ AfterLatest(latest_db_data')
    /\ UNCHANGED <<db_aborted, stock, yahoo_data, saved_count>>
    /\ UNCHANGED <<varsAside, varsSmart, varsStore, varsClock, varsTracker,
                   varsRun, varsHist>>

\* get_latest_ohlcv_data: the query raises; the handler logs and returns None
\* without a rollback
GetLatestRaises ==
    /\ pc = "start"
    /\ latest_db_data' = Nothing
    /\ db_aborted' \in (IF db_aborted THEN {TRUE} ELSE BOOLEAN)
    /\ h_db_errors' = TRUE
    /\ AfterLatest(Nothing)
    /\ UNCHANGED <<stock, yahoo_data, saved_count>>
    /\ UNCHANGED <<h_rows0, h_tracker0, h_validation, h_refresh, h_new,
                   h_fetch_errors, syncs>>
    /\ UNCHANGED <<varsAside, varsSmart, varsStore, varsClock, varsTracker,
                   varsRun>>

\* what a fetch adds to the history of the sync
FetchHistory(data) ==
    h_new' = (h_new \/ \E r \in data : r.date \notin StoredDays(h_rows0, stock))

\* lines 329-336: fetch_yahoo_data answers a frame with rows
Fetch ==
    /\ pc = "fetch"
    /\ \E data \in Responses(start_date, now) :
          /\ data # {}
          /\ yahoo_data' = Some(data)
          /\ FetchHistory(data)
    /\ pc' = IF latest_db_data # Nothing /\ ~validate_only
             THEN "validate" ELSE "save"
    /\ UNCHANGED <<db_aborted, stock, latest_db_data, start_date, saved_count, ret>>
    /\ UNCHANGED <<h_rows0, h_tracker0, h_validation, h_refresh,
                   h_fetch_errors, h_db_errors, syncs>>
    /\ UNCHANGED <<varsAside, varsSmart, varsStore, varsClock, varsTracker,
                   varsRun>>

\* lines 329-333: fetch_yahoo_data returns None, because the frame is empty
\* or because the provider raised (which its handler logs)
FetchNothing ==
    /\ pc = "fetch"
    /\ \E raised \in BOOLEAN :
          h_fetch_errors' = IF raised THEN h_fetch_errors \cup {stock}
                            ELSE h_fetch_errors
    /\ yahoo_data' = Nothing
    /\ Return(TRUE, "No new data available")
    /\ UNCHANGED <<db_aborted, stock, latest_db_data, start_date, saved_count>>
    /\ UNCHANGED <<h_rows0, h_tracker0, h_validation, h_refresh, h_new,
                   h_db_errors, syncs>>
    /\ UNCHANGED <<varsAside, varsSmart, varsStore, varsClock, varsTracker,
                   varsRun>>

\* line 342: if not self.validate_ohlcv_data(...), the refresh
RefreshNeededInverted(valid) == valid

RefreshNeeded(valid) == ~valid

\* lines 336-343: the latest stored record against the last fetched row
ValidateLatest ==
    /\ pc = "validate"
    /\ LET valid == validate_ohlcv_data(latest_db_data, LastRow(yahoo_data[1]).q)
       IN  /\ h_validation' = IF valid THEN "pass" ELSE "fail"
           /\ pc' = IF RefreshNeeded(valid) THEN "delete" ELSE "save"
    /\ UNCHANGED <<db_aborted, stock, latest_db_data, start_date, yahoo_data,
                   saved_count, ret>>
    /\ UNCHANGED <<h_rows0, h_tracker0, h_refresh, h_new, h_fetch_errors,
                   h_db_errors, syncs>>
    /\ UNCHANGED <<varsAside, varsSmart, varsStore, varsClock, varsTracker,
                   varsRun>>

\* the table after query(DailyPrice).filter(stock_id == stock_id).delete()
\* and the commit
DeletedPricesUncommitted(prices, stock_id) == prices

DeletedPrices(prices, stock_id) ==
    [r \in {x \in BagToSet(prices) : x.stock_id # stock_id} |-> prices[r]]

\* lines 346-347, delete_all_ohlcv_data deletes and commits
DeleteAll ==
    /\ pc = "delete"
    /\ ~db_aborted
    /\ daily_prices' = DeletedPrices(daily_prices, stock)
    /\ h_refresh' = "deleted"
    /\ pc' = "refetch"
    /\ UNCHANGED <<db_aborted, stock, latest_db_data, start_date, yahoo_data,
                   saved_count, ret>>
    /\ UNCHANGED <<h_rows0, h_tracker0, h_validation, h_new, h_fetch_errors,
                   h_db_errors, syncs>>
    /\ UNCHANGED <<varsAside, varsSmart, varsClock, varsTracker, varsRun>>

\* delete_all_ohlcv_data: the delete or its commit raises.  The handler rolls
\* back and returns False; a rollback that raises too leaves the function as
\* an exception, which the handler of sync_stock_ohlcv catches.
DeleteRaises ==
    /\ pc = "delete"
    /\ h_db_errors' = TRUE
    /\ \/ /\ db_aborted' = FALSE
          /\ Return(FALSE, "Failed to delete existing data")
       \/ /\ db_aborted' = TRUE
          /\ pc' = "except"
          /\ ret' = ret
    /\ UNCHANGED <<stock, latest_db_data, start_date, yahoo_data, saved_count>>
    /\ UNCHANGED <<h_rows0, h_tracker0, h_validation, h_refresh, h_new,
                   h_fetch_errors, syncs>>
    /\ UNCHANGED <<varsAside, varsSmart, varsStore, varsClock, varsTracker,
                   varsRun>>

\* lines 350-352: the complete fetch answers a frame with rows
Refetch ==
    /\ pc = "refetch"
    /\ start_date' = now - FullWindowDays * SecondsPerDay
    /\ \E data \in Responses(start_date', now) :
          /\ data # {}
          /\ yahoo_data' = Some(data)
          /\ FetchHistory(data)
    /\ pc' = "save"
    /\ UNCHANGED <<db_aborted, stock, latest_db_data, saved_count, ret>>
    /\ UNCHANGED <<h_rows0, h_tracker0, h_validation, h_refresh,
                   h_fetch_errors, h_db_errors, syncs>>
    /\ UNCHANGED <<varsAside, varsSmart, varsStore, varsClock, varsTracker,
                   varsRun>>

\* lines 350-355: the complete fetch returns None
RefetchNothing ==
    /\ pc = "refetch"
    /\ start_date' = now - FullWindowDays * SecondsPerDay
    /\ \E raised \in BOOLEAN :
          h_fetch_errors' = IF raised THEN h_fetch_errors \cup {stock}
                            ELSE h_fetch_errors
    /\ yahoo_data' = Nothing
    /\ h_refresh' = "refetch_failed"
    /\ Return(FALSE, "Failed to fetch complete data")
    /\ UNCHANGED <<db_aborted, stock, latest_db_data, saved_count>>
    /\ UNCHANGED <<h_rows0, h_tracker0, h_validation, h_new, h_db_errors, syncs>>
    /\ UNCHANGED <<varsAside, varsSmart, varsStore, varsClock, varsTracker,
                   varsRun>>

\* lines 358-369 after save_ohlcv_data returned saved_count
AfterSave ==
    IF saved_count' > 0
    THEN pc' = "track" /\ ret' = ret
    ELSE Return(TRUE, "No new records")

\* line 358, save_ohlcv_data inserts and commits
Save ==
    /\ pc = "save"
    /\ ~db_aborted
    /\ daily_prices' = SavedPrices(daily_prices, stock, yahoo_data[1])
    /\ saved_count' = SavedCount(daily_prices, stock, yahoo_data[1])
    /\ h_refresh' = IF h_refresh = "deleted" THEN "rebuilt" ELSE h_refresh
    /\ AfterSave
    /\ UNCHANGED <<db_aborted, stock, latest_db_data, start_date, yahoo_data>>
    /\ UNCHANGED <<h_rows0, h_tracker0, h_validation, h_new, h_fetch_errors,
                   h_db_errors, syncs>>
    /\ UNCHANGED <<varsAside, varsSmart, varsClock, varsTracker, varsRun>>

\* save_ohlcv_data: a query, an insert or the commit raises.  The handler
\* rolls back and returns 0; a rollback that raises too reaches the handler
\* of sync_stock_ohlcv.
SaveRaises ==
    /\ pc = "save"
    /\ h_db_errors' = TRUE
    /\ saved_count' = 0
    /\ \/ /\ db_aborted' = FALSE
          /\ AfterSave
       \/ /\ db_aborted' = TRUE
          /\ pc' = "except"
          /\ ret' = ret
    /\ UNCHANGED <<stock, latest_db_data, start_date, yahoo_data>>
    /\ UNCHANGED <<h_rows0, h_tracker0, h_validation, h_refresh, h_new,
                   h_fetch_errors, syncs>>
    /\ UNCHANGED <<varsAside, varsSmart, varsStore, varsClock, varsTracker,
                   varsRun>>

\* lines 360-366: update_sync_tracker(stock.id, last_date, saved_count,
\* 'success'); a failure inside it is logged and rolled back there
Track ==
    /\ pc = "track"
    /\ \/ /\ ~db_aborted
          /\ sync_tracker' =
                update_sync_tracker(sync_tracker, stock, now,
                                    LastRow(yahoo_data[1]).date, saved_count,
                                    "success", "")
          /\ UNCHANGED h_db_errors
       \/ /\ h_db_errors' = TRUE
          /\ UNCHANGED sync_tracker
    /\ db_aborted' = FALSE
    /\ Return(TRUE, "Synced records")
    /\ UNCHANGED <<stock, latest_db_data, start_date, yahoo_data, saved_count>>
    /\ UNCHANGED <<h_rows0, h_tracker0, h_validation, h_refresh, h_new,
                   h_fetch_errors, syncs>>
    /\ UNCHANGED <<varsAside, varsSmart, varsStore, varsClock, varsRun>>

\* lines 371-374, the handler of sync_stock_ohlcv:
\* update_sync_tracker(stock.id, None, 0, 'failed', str(e)), return False
Except ==
    /\ pc = "except"
    /\ \/ /\ sync_tracker' =
                update_sync_tracker(sync_tracker, stock, now, NONE, 0,
                                    "failed", "error")
       \/ UNCHANGED sync_tracker
    /\ db_aborted' = FALSE
    /\ Return(FALSE, "error")
    /\ UNCHANGED <<stock, latest_db_data, start_date, yahoo_data, saved_count>>
    /\ UNCHANGED varsHist
    /\ UNCHANGED <<varsAside, varsSmart, varsStore, varsClock, varsRun>>

(***************************************************************************)
(* DailyOHLCVSyncer.sync_all_stocks: the stocks in batches of batch_size,  *)
(* one sync_stock_ohlcv per stock, one commit per batch.                   *)
(***************************************************************************)

\* batch_size (20 in the program), scaled to the number of stocks of the model
batch_size == 2

total_stocks == NumStocks

\* for batch_start in range(0, total_stocks, batch_size): the next start
NextBatchStartSkipping(batch_start) == batch_start + batch_size + 1

NextBatchStart(batch_start) == batch_start + batch_size

\* batch_end = min(batch_start + batch_size, total_stocks)
BatchEnd(batch_start) ==
    IF batch_start + batch_size < total_stocks
    THEN batch_start + batch_size ELSE total_stocks

\* the start of the batch that holds position i (from 1)
BatchStartOf(i) == ((i - 1) \div batch_size) * batch_size

RunIdle ==
    /\ run_pc = "idle"
    /\ run_i = 0
    /\ validate_only = FALSE
    /\ success_count = 0
    /\ failed_count = 0
    /\ commits = 0
    /\ h_fetch_errors = {}
    /\ h_db_errors = FALSE

\* the handler of sync_stock_ohlcv raises itself (the rollback inside its
\* update_sync_tracker fails): the exception leaves sync_stock_ohlcv
ExceptRaises ==
    /\ pc = "except"
    /\ pc' = "raised"
    /\ UNCHANGED <<db_aborted, stock, latest_db_data, start_date, yahoo_data,
                   saved_count, ret>>
    /\ UNCHANGED varsHist
    /\ UNCHANGED <<varsAside, varsSmart, varsStore, varsClock, varsTracker,
                   varsRun>>

\* what every caller of sync_stock_ohlcv(stock, validate_only) does to the
\* state of the sync and to the history
BeginSync(stock_id) ==
    /\ pc' = "start"
    /\ stock' = stock_id
    /\ h_rows0' = daily_prices
    /\ h_tracker0' = sync_tracker
    /\ h_validation' = "none"
    /\ h_refresh' = "none"
    /\ h_new' = FALSE
    /\ syncs' = syncs + 1
    /\ UNCHANGED <<latest_db_data, start_date, yahoo_data, saved_count, ret>>

\* the locals of sync_stock_ohlcv, and the history of the sync, once the
\* call is over
EndSync ==
    /\ pc' = "none"
    /\ stock' = 0
    /\ latest_db_data' = Nothing
    /\ start_date' = 0
    /\ yahoo_data' = Nothing
    /\ saved_count' = 0
    /\ ret' = NoReturn
    /\ h_rows0' = EmptyBag
    /\ h_tracker0' = {}
    /\ h_validation' = "none"
    /\ h_refresh' = "none"
    /\ h_new' = FALSE

\* lines 379-389: get_all_stocks, the counters
RunStart ==
    /\ run_pc = "idle"
    /\ run_pc' = "loop"
    /\ run_i' = 1
    /\ validate_only' \in BOOLEAN
    /\ UNCHANGED <<success_count, failed_count, commits>>
    /\ UNCHANGED <<varsSync, varsHist>>
    /\ UNCHANGED <<varsAside, varsSmart, varsStore, varsClock, varsTracker>>

\* line 403: success, message = self.sync_stock_ohlcv(stock, validate_only)
RunCallSync ==
    /\ run_pc = "loop"
    /\ pc = "none"
    /\ BeginSync(run_i)
    /\ UNCHANGED <<h_fetch_errors, h_db_errors, db_aborted>>
    /\ UNCHANGED <<varsAside, varsSmart, varsStore, varsClock, varsTracker,
                   varsRun>>

\* lines 405-414: the counters, then the next stock of the batch or the
\* commit of the batch
RunAfterSync ==
    /\ run_pc = "loop"
    /\ pc = "return"
    /\ IF ret.success
       THEN success_count' = success_count + 1 /\ UNCHANGED failed_count
       ELSE failed_count' = failed_count + 1 /\ UNCHANGED success_count
    /\ IF run_i < BatchEnd(BatchStartOf(run_i))
       THEN run_i' = run_i + 1 /\ run_pc' = "loop"
       ELSE run_i' = run_i /\ run_pc' = "commit"
    /\ EndSync
    /\ UNCHANGED <<db_aborted, validate_only, commits>>
    /\ UNCHANGED <<h_fetch_errors, h_db_errors, syncs>>
    /\ UNCHANGED <<varsAside, varsSmart, varsStore, varsClock, varsTracker>>

\* line 417: self.db.commit(), then the next batch, or the summary and the
\* close of the session (lines 420-434)
RunCommit ==
    /\ run_pc = "commit"
    /\ commits' = commits + 1
    /\ db_aborted' = FALSE
    /\ IF NextBatchStart(BatchStartOf(run_i)) < total_stocks
       THEN run_i' = NextBatchStart(BatchStartOf(run_i)) + 1 /\ run_pc' = "loop"
       ELSE run_i' = run_i /\ run_pc' = "done"
    /\ UNCHANGED <<validate_only, success_count, failed_count>>
    /\ UNCHANGED <<pc, stock, latest_db_data, start_date, yahoo_data,
                   saved_count, ret>>
    /\ UNCHANGED varsHist
    /\ UNCHANGED <<varsAside, varsSmart, varsStore, varsClock, varsTracker>>

\* lines 430-434: an exception reaches the handler of sync_all_stocks, from
\* the commit of a batch or out of sync_stock_ohlcv; the run returns zeros
\* and the session is closed
RunRaises ==
    /\ \/ run_pc = "commit" /\ h_db_errors' = TRUE
       \/ run_pc = "loop" /\ pc = "raised" /\ UNCHANGED h_db_errors
    /\ run_pc' = "aborted"
    /\ db_aborted' = FALSE
    /\ UNCHANGED <<run_i, validate_only, success_count, failed_count, commits>>
    /\ UNCHANGED <<pc, stock, latest_db_data, start_date, yahoo_data,
                   saved_count, ret>>
    /\ UNCHANGED <<h_rows0, h_tracker0, h_validation, h_refresh, h_new,
                   h_fetch_errors, syncs>>
    /\ UNCHANGED <<varsAside, varsSmart, varsStore, varsClock, varsTracker>>

RunStep ==
    RunStart \/ RunCallSync \/ RunAfterSync \/ RunCommit \/ RunRaises

SyncStep ==
    \/ GetLatest \/ GetLatestRaises
    \/ Fetch \/ FetchNothing
    \/ ValidateLatest
    \/ DeleteAll \/ DeleteRaises
    \/ Refetch \/ RefetchNothing
    \/ Save \/ SaveRaises
    \/ Track
    \/ Except \/ ExceptRaises

\* the variables of the daily syncer, for the specifications without it
DailyUnused ==
    /\ now = 0
    /\ sync_tracker = {}
    /\ db_aborted = FALSE
    /\ RunIdle
    /\ SyncIdle
    /\ HistIdle
    /\ SmartIdle

(***************************************************************************)
(* SpecRun: one run of sync_all_stocks at 17:00 of day 1, every stock      *)
(* holding the bar of day 0 and the checkpoint of the sync that stored it. *)
(***************************************************************************)
RunTime == Midnight(1) + 17 * 3600

InitRun ==
    /\ now = RunTime
    /\ daily_prices = SetToBag({[stock_id |-> s, date |-> 0, q |-> QuoteA] :
                                   s \in Stocks})
    /\ sync_tracker = {TrackerRow(s, "ohlcv", RunTime - SecondsPerDay, 0, 1,
                                  "success", "") : s \in Stocks}
    /\ db_aborted = FALSE
    /\ RunIdle
    /\ SyncIdle
    /\ HistIdle
    /\ SmartIdle
    /\ ValidateUnused
    /\ UpsertUnused
    /\ RetryUnused
    /\ GateUnused
    /\ QuarterlyUnused
    /\ CacheUnused
    /\ ApiUnused

NextRun == SyncStep \/ RunStep

SpecRun == InitRun /\ [][NextRun]_vars

(***************************************************************************)
(* SmartYahooSyncer.smart_sync_ohlcv, step by step.  Every storage call    *)
(* goes through safe_db_operation, in a session of its own: it either      *)
(* commits or, once the retries are over, raises.                          *)
(***************************************************************************)

\* timedelta(days=365), the window of a first smart sync
FirstSyncDays == 365

\* (a - b).days, for two times in seconds
DeltaDays(a, b) == (a - b) \div SecondsPerDay

\* SmartYahooSyncer.get_sync_tracker: the table after the call, which creates
\* the row when there is none (last_sync_time = utcnow(), the other columns
\* at their defaults)
get_sync_tracker(trackers, stock_id, data_type, time) ==
    IF TrackerOf(trackers, stock_id, data_type) # {}
    THEN trackers
    ELSE trackers \cup {TrackerRow(stock_id, data_type, time, NONE, 0,
                                   "success", "")}

\* the dictionary get_sync_tracker returns
TrackerDict(trackers, stock_id, data_type, time) ==
    CHOOSE t \in get_sync_tracker(trackers, stock_id, data_type, time) :
        t.stock_id = stock_id /\ t.data_type = data_type

\* SmartYahooSyncer.update_sync_tracker: the row is overwritten when there is
\* one, and nothing is written when there is none
smart_update_sync_tracker(trackers, stock_id, data_type, time, last_data_date, records_count, status, error_msg) ==
    IF TrackerOf(trackers, stock_id, data_type) = {}
    THEN trackers
    ELSE (trackers \ TrackerOf(trackers, stock_id, data_type))
            \cup {TrackerRow(stock_id, data_type, time, last_data_date,
                             records_count, status, error_msg)}

\* _save_ohlcv_data: the rows of the frame for which the query
\* DailyPrice.date == date.date() finds no row of the stock
SmartNewRows(prices, stock_id, data) ==
    {[stock_id |-> stock_id, date |-> SqlTimestamp(PyDate(r.date)), q |-> r.q] :
        r \in {x \in data :
                 ~\E row \in RowsOf(prices, stock_id) :
                     row.date = SqlTimestamp(PyDate(x.date))}}

SmartReturn(count) ==
    /\ m_pc' = "return"
    /\ m_ret' = count

\* the stock the syncers are invoked for, and a stock they are never
\* invoked for, which holds one bar
SyncedStock == 1
Bystander == 2

\* the syncs of a behaviour
MaxSyncs == 3

\* a caller invokes smart_sync_ohlcv(stock_id, stock_symbol, ticker)
SmartCall ==
    /\ pc = "none"
    /\ m_pc = "none"
    /\ syncs < MaxSyncs
    /\ m_pc' = "tracker"
    /\ m_stock' = SyncedStock
    /\ h_rows0' = daily_prices
    /\ h_tracker0' = sync_tracker
    /\ h_new' = FALSE
    /\ syncs' = syncs + 1
    /\ UNCHANGED <<m_start, m_data, m_saved, m_last_date, m_ret>>
    /\ UNCHANGED <<h_validation, h_refresh, h_fetch_errors, h_db_errors>>
    /\ UNCHANGED <<varsAside, varsStore, varsClock, varsTracker,
                   varsRun, varsSync>>

\* lines 195-208: the tracker, the start date, the up-to-date test
SmartTracker ==
    /\ m_pc = "tracker"
    /\ sync_tracker' = get_sync_tracker(sync_tracker, m_stock, "ohlcv", now)
    /\ LET tracker == TrackerDict(sync_tracker, m_stock, "ohlcv", now)
       IN  IF tracker.last_data_date = NONE
           THEN /\ m_start' = now - FirstSyncDays * SecondsPerDay
                /\ m_pc' = "fetch"
                /\ m_ret' = m_ret
           ELSE /\ m_start' = Midnight(tracker.last_data_date + 1)
                /\ IF DeltaDays(now, Midnight(tracker.last_data_date)) < 1
                   THEN SmartReturn(0)
                   ELSE m_pc' = "fetch" /\ m_ret' = m_ret
    /\ UNCHANGED <<m_stock, m_data, m_saved, m_last_date>>
    /\ UNCHANGED varsHist
    /\ UNCHANGED <<varsAside, varsStore, varsClock, varsRun,
                   varsSync>>

\* lines 210-222: the frame, from the cache or from the provider
SmartFetch ==
    /\ m_pc = "fetch"
    /\ \E data \in Responses(m_start, now) :
          /\ m_data' = Some(data)
          /\ h_new' = (h_new \/ \E r \in data :
                                   r.date \notin StoredDays(h_rows0, m_stock))
          /\ IF data = {}
             THEN SmartReturn(0)
             ELSE m_pc' = "save" /\ m_ret' = m_ret
    /\ UNCHANGED <<m_stock, m_start, m_saved, m_last_date>>
    /\ UNCHANGED <<h_rows0, h_tracker0, h_validation, h_refresh,
                   h_fetch_errors, h_db_errors, syncs>>
    /\ UNCHANGED <<varsAside, varsStore, varsClock, varsTracker,
                   varsRun, varsSync>>

\* line 252: safe_db_operation(_save_ohlcv_data) commits
SmartSave ==
    /\ m_pc = "save"
    /\ LET rows == SmartNewRows(daily_prices, m_stock, m_data[1])
       IN  /\ daily_prices' = daily_prices (+) SetToBag(rows)
           /\ m_saved' = Cardinality(rows)
           /\ IF rows = {}
              THEN /\ m_last_date' = NONE
                   /\ SmartReturn(0)
              ELSE /\ m_last_date' =
                         (CHOOSE r \in rows : \A x \in rows : x.date <= r.date).date
                   /\ m_pc' = "update"
                   /\ m_ret' = m_ret
    /\ UNCHANGED <<m_stock, m_start, m_data>>
    /\ UNCHANGED varsHist
    /\ UNCHANGED <<varsAside, varsClock, varsTracker, varsRun,
                   varsSync>>

\* lines 254-263: update_sync_tracker(stock_id, 'ohlcv', last_date, saved_count)
SmartUpdate ==
    /\ m_pc = "update"
    /\ sync_tracker' =
          smart_update_sync_tracker(sync_tracker, m_stock, "ohlcv", now,
                                    m_last_date, m_saved, "success", "")
    /\ SmartReturn(m_saved)
    /\ UNCHANGED <<m_stock, m_start, m_data, m_saved, m_last_date>>
    /\ UNCHANGED varsHist
    /\ UNCHANGED <<varsAside, varsStore, varsClock, varsRun,
                   varsSync>>

\* an exception in the body: get_sync_tracker, ticker.history, the save or
\* update_sync_tracker raises (a storage call, after its retries)
SmartRaises ==
    /\ m_pc \in {"tracker", "fetch", "save", "update"}
    /\ m_pc' = "except"
    /\ h_db_errors' = (h_db_errors \/ m_pc # "fetch")
    /\ UNCHANGED <<m_stock, m_start, m_data, m_saved, m_last_date, m_ret>>
    /\ UNCHANGED <<h_rows0, h_tracker0, h_validation, h_refresh, h_new,
                   h_fetch_errors, syncs>>
    /\ UNCHANGED <<varsAside, varsStore, varsClock, varsTracker,
                   varsRun, varsSync>>

\* lines 265-271, the handler: the tracker is read again and marked failed
\* with its last_data_date kept; return 0
SmartExcept ==
    /\ m_pc = "except"
    /\ LET tracker == TrackerDict(sync_tracker, m_stock, "ohlcv", now)
       IN  sync_tracker' =
              smart_update_sync_tracker(
                  get_sync_tracker(sync_tracker, m_stock, "ohlcv", now),
                  m_stock, "ohlcv", now, tracker.last_data_date, 0, "failed",
                  "error")
    /\ SmartReturn(0)
    /\ UNCHANGED <<m_stock, m_start, m_data, m_saved, m_last_date>>
    /\ UNCHANGED varsHist
    /\ UNCHANGED <<varsAside, varsStore, varsClock, varsRun,
                   varsSync>>

\* the handler raises itself: its get_sync_tracker raises, or commits (and
\* creates the row when there was none) before its update_sync_tracker raises
SmartExceptRaises ==
    /\ m_pc = "except"
    /\ sync_tracker' \in
          {sync_tracker, get_sync_tracker(sync_tracker, m_stock, "ohlcv", now)}
    /\ m_pc' = "raised"
    /\ UNCHANGED <<m_stock, m_start, m_data, m_saved, m_last_date, m_ret>>
    /\ UNCHANGED varsHist
    /\ UNCHANGED <<varsAside, varsStore, varsClock, varsRun,
                   varsSync>>

\* the call is over
SmartEnd ==
    /\ m_pc \in {"return", "raised"}
    /\ m_pc' = "none"
    /\ m_stock' = 0
    /\ m_start' = 0
    /\ m_data' = Nothing
    /\ m_saved' = 0
    /\ m_last_date' = NONE
    /\ m_ret' = 0
    /\ h_rows0' = EmptyBag
    /\ h_tracker0' = {}
    /\ h_new' = FALSE
    /\ h_db_errors' = FALSE
    /\ UNCHANGED <<h_validation, h_refresh, h_fetch_errors, syncs>>
    /\ UNCHANGED <<varsAside, varsStore, varsClock, varsTracker,
                   varsRun, varsSync>>

SmartStep ==
    \/ SmartCall \/ SmartTracker \/ SmartFetch \/ SmartSave \/ SmartUpdate
    \/ SmartRaises \/ SmartExcept \/ SmartExceptRaises \/ SmartEnd

(***************************************************************************)
(* Spec: the life of one stock, day after day: the calls of                *)
(* sync_stock_ohlcv that the runs of the daily syncer make for it (each    *)
(* run has a session of its own), and the calls of smart_sync_ohlcv.       *)
(***************************************************************************)

\* line 403 (and main, line 459): sync_stock_ohlcv(stock, validate_only)
CallSync ==
    /\ pc = "none"
    /\ m_pc = "none"
    /\ syncs < MaxSyncs
    /\ BeginSync(SyncedStock)
    /\ validate_only' \in BOOLEAN
    /\ h_fetch_errors' = {}
    /\ h_db_errors' = FALSE
    /\ UNCHANGED <<db_aborted, run_pc, run_i, success_count, failed_count, commits>>
    /\ UNCHANGED <<varsAside, varsStore, varsClock, varsTracker,
                   varsSmart>>

\* lines 405-434: the result is counted, or the exception handled; the run
\* goes on without this stock, and ends with the close of its session
CallReturns ==
    /\ run_pc = "idle"
    /\ pc \in {"return", "raised"}
    /\ EndSync
    /\ db_aborted' = FALSE
    /\ validate_only' = FALSE
    /\ UNCHANGED <<run_pc, run_i, success_count, failed_count, commits>>
    /\ UNCHANGED <<h_fetch_errors, h_db_errors, syncs>>
    /\ UNCHANGED <<varsAside, varsStore, varsClock, varsTracker,
                   varsSmart>>

\* a day passes between two calls
Tick ==
    /\ pc = "none"
    /\ m_pc = "none"
    /\ now < Midnight(MaxDay)
    /\ now' = now + SecondsPerDay
    /\ UNCHANGED <<varsTracker, varsRun, varsSync, varsHist, varsSmart>>
    /\ UNCHANGED <<varsAside, varsStore>>

\* the first call is at 17:00 of day 0; the synced stock has no row yet
Init ==
    /\ now = 17 * 3600
    /\ sync_tracker = {}
    /\ daily_prices = SetToBag({[stock_id |-> Bystander, date |-> 0, q |-> QuoteA]})
    /\ db_aborted = FALSE
    /\ RunIdle
    /\ SyncIdle
    /\ HistIdle
    /\ SmartIdle
    /\ ValidateUnused
    /\ UpsertUnused
    /\ RetryUnused
    /\ GateUnused
    /\ QuarterlyUnused
    /\ CacheUnused
    /\ ApiUnused

Next == SyncStep \/ SmartStep \/ CallSync \/ CallReturns \/ Tick

Spec == Init /\ [][Next]_vars

(***************************************************************************)
(* SpecUpsert: save_ohlcv_data applied to a stored history and a candidate *)
(* batch drawn from bounded sets.                                          *)
(***************************************************************************)

\* the days of the harness are 0 .. UpsertDays - 1
UpsertDays == 10

DayRange(lo, hi) == {d \in 0 .. UpsertDays - 1 : lo <= d /\ d < hi}

\* Stock 1 holds the days before a, stock 2 either nothing or day 0; the batch
\* for stock 1 is the days from b up to c.
InitUpsert ==
    /\ \E a \in 0 .. UpsertDays, other \in {0, 1} :
          daily_prices =
             SetToBag({[stock_id |-> 1, date |-> d, q |-> QuoteA] : d \in DayRange(0, a)}
                      \cup {[stock_id |-> 2, date |-> d, q |-> QuoteA] : d \in DayRange(0, other)})
    /\ \E b \in 0 .. UpsertDays, c \in 0 .. UpsertDays, q \in Quotes :
          u_data = {[date |-> d, q |-> q] : d \in DayRange(b, c)}
    /\ u_pc = "call"
    /\ u_stock = 1
    /\ u_before = daily_prices
    /\ u_returned = 0
    /\ u_failed = FALSE
    /\ ValidateUnused
    /\ RetryUnused
    /\ DailyUnused
    /\ GateUnused
    /\ QuarterlyUnused
    /\ CacheUnused
    /\ ApiUnused

\* the call returns total_saved after the commit
UpsertSave ==
    /\ u_pc = "call"
    /\ u_pc' = "done"
    /\ daily_prices' = SavedPrices(daily_prices, u_stock, u_data)
    /\ u_returned' = SavedCount(daily_prices, u_stock, u_data)
    /\ UNCHANGED <<u_stock, u_data, u_before, u_failed>>
    /\ UNCHANGED <<varsValidate, varsRetry, varsSyncers>>

\* a query, an insert or the commit raises: rollback, return 0
UpsertRaise ==
    /\ u_pc = "call"
    /\ u_pc' = "done"
    /\ u_failed' = TRUE
    /\ u_returned' = 0
    /\ UNCHANGED <<daily_prices, u_stock, u_data, u_before>>
    /\ UNCHANGED <<varsValidate, varsRetry, varsSyncers>>

NextUpsert == UpsertSave \/ UpsertRaise

SpecUpsert == InitUpsert /\ [][NextUpsert]_vars

(***************************************************************************)
(* SpecValidate: validate_ohlcv_data applied to inputs drawn from bounded  *)
(* sets around the tolerance boundary.                                     *)
(***************************************************************************)

\* local prices: 100.00, and the degenerate 0 and None
DbPriceInputs == {10000, 0, NONE}
\* remote prices: equal, exactly 1% above and below, one unit past 1%, None, NaN
YahooPriceInputs == {10000, 10100, 10101, 9900, 9899, NONE, NAN}
DbVolumeInputs == {1000, 0, NONE}
YahooVolumeInputs == {1000, 1100, 1101, 900, 899, 0, NAN}

DbRecords ==
    [open : {10000}, high : {10000}, low : DbPriceInputs, close : DbPriceInputs,
     volume : DbVolumeInputs]

YahooRecords ==
    [open : {10000, 10100, 10101}, high : {10000}, low : YahooPriceInputs,
     close : YahooPriceInputs, volume : YahooVolumeInputs]

InitValidate ==
    /\ v_db \in {Some(r) : r \in DbRecords} \cup {Nothing}
    /\ v_yahoo \in YahooRecords
    /\ v_result = "pending"
    /\ StoreEmpty
    /\ UpsertUnused
    /\ RetryUnused
    /\ DailyUnused
    /\ GateUnused
    /\ QuarterlyUnused
    /\ CacheUnused
    /\ ApiUnused

Validate ==
    /\ v_result = "pending"
    /\ v_result' = IF validate_ohlcv_data(v_db, v_yahoo) THEN "True" ELSE "False"
    /\ UNCHANGED <<v_db, v_yahoo, varsStore, varsUpsert, varsRetry, varsSyncers>>

NextValidate == Validate

SpecValidate == InitValidate /\ [][NextValidate]_vars

(***************************************************************************)
(* SpecRetry: SmartYahooSyncer.safe_db_operation (BSEQuarterlySyncer has   *)
(* the same function) applied to a storage whose behaviour at each attempt *)
(* is drawn from a bounded set.  An attempt opens a session, runs the      *)
(* operation and commits; its outcome is "ok", "transient" (an exception   *)
(* whose text has 'server closed the connection') or "other" (any other    *)
(* exception).                                                             *)
(***************************************************************************)
max_retries == 3

\* retry_delay = 2, in seconds
InitialRetryDelay == 2

Outcomes == {"ok", "transient", "other"}

\* the attempts whose outcome the input fixes
ScriptLen == 4

\* if "server closed the connection" in str(e) and attempt < max_retries - 1
ShouldRetryOneMore(outcome, attempt) ==
    outcome = "transient" /\ attempt < max_retries

ShouldRetry(outcome, attempt) ==
    outcome = "transient" /\ attempt < max_retries - 1

InitRetry ==
    /\ r_pc = "running"
    /\ r_script \in [1 .. ScriptLen -> Outcomes]
    /\ r_attempt = 0
    /\ r_retry_delay = InitialRetryDelay
    /\ r_outcomes = <<>>
    /\ r_sleeps = <<>>
    /\ ValidateUnused
    /\ UpsertUnused
    /\ StoreEmpty
    /\ DailyUnused
    /\ GateUnused
    /\ QuarterlyUnused
    /\ CacheUnused
    /\ ApiUnused

\* one pass of the loop for attempt in range(max_retries): the attempt, and
\* what follows it (return, sleep and continue, or raise); the loop that
\* ends without a return makes the function return None
Attempt ==
    /\ r_pc = "running"
    /\ LET outcome == r_script[Len(r_outcomes) + 1]
       IN  /\ r_outcomes' = Append(r_outcomes, outcome)
           /\ IF outcome = "ok"
              THEN /\ r_pc' = "returned"
                   /\ UNCHANGED <<r_attempt, r_retry_delay, r_sleeps>>
              ELSE IF ShouldRetry(outcome, r_attempt)
              THEN /\ r_sleeps' = Append(r_sleeps, r_retry_delay)
                   /\ r_retry_delay' = r_retry_delay * 2
                   /\ r_attempt' = r_attempt + 1
                   /\ r_pc' = IF r_attempt + 1 < max_retries
                              THEN "running" ELSE "returned_none"
              ELSE /\ r_pc' = "raised"
                   /\ UNCHANGED <<r_attempt, r_retry_delay, r_sleeps>>
    /\ UNCHANGED r_script
    /\ UNCHANGED <<varsValidate, varsUpsert, varsStore, varsSyncers>>

NextRetry == Attempt

SpecRetry == InitRetry /\ [][NextRetry]_vars

(***************************************************************************)
(* SmartYahooSyncer.smart_sync_news, smart_sync_financials and             *)
(* smart_sync_earnings.  Each runs its operation (_save_news_data, ...)    *)
(* under safe_db_operation; the operation reads the checkpoint with        *)
(* get_sync_tracker, which runs under a safe_db_operation of its own with  *)
(* its own session, and returns (0, None) when the checkpoint is recent.   *)
(* An item of the provider is a key; its date is the key.                  *)
(***************************************************************************)

DataTypes == {"news", "financials", "earnings"}

CACHE_TTL == 300

\* the bounds of the three checks: seconds for news, days for the others
NewsRecheckSeconds == 3600
FinancialsRecheckDays == 7
EarningsRecheckDays == 30

\* timedelta.total_seconds(), of a difference kept in seconds
total_seconds(delta) == delta

\* timedelta.days, of a difference kept in seconds
days(delta) == delta \div SecondsPerDay

\* one bound for every data type
RecentlySyncedHourly(data_type, time, last_sync_time) ==
    /\ last_sync_time # NONE
    /\ total_seconds(time - last_sync_time) < NewsRecheckSeconds

\* the condition under which the operation returns (0, None) without
\* fetching; time is datetime.utcnow()
RecentlySynced(data_type, time, last_sync_time) ==
    /\ last_sync_time # NONE
    /\ CASE data_type = "news" ->
              total_seconds(time - last_sync_time) < NewsRecheckSeconds
         [] data_type = "financials" ->
              days(time - last_sync_time) < FinancialsRecheckDays
         [] data_type = "earnings" ->
              days(time - last_sync_time) < EarningsRecheckDays

\* the provider properties an operation reads, one after the other:
\* ticker.news; ticker.quarterly_financials and ticker.cashflow;
\* ticker.earnings_dates
NumBlocks(data_type) == IF data_type = "financials" THEN 2 ELSE 1

\* the stock the calls are made for
GateStock == 1

\* the calls made in one behaviour
MaxCalls == 2

\* utcnow() at the start
GateTime == 40 * SecondsPerDay

\* the items a provider property may hold
Keys == {1, 2}

\* an entry of exactly CACHE_TTL seconds still answers
get_cached_data_inclusive(cache, time) ==
    IF cache # Nothing /\ time - cache[1].time <= CACHE_TTL
    THEN Some(cache[1].data)
    ELSE Nothing

\* get_cached_data: the cached value when there is one younger than
\* CACHE_TTL, else None
get_cached_data(cache, time) ==
    IF cache # Nothing /\ time - cache[1].time < CACHE_TTL
    THEN Some(cache[1].data)
    ELSE Nothing

\* the keys of the stored rows of one block
StoredKeys(rows, stock_id, data_type, block) ==
    {r.key : r \in {x \in rows : /\ x.stock_id = stock_id
                                 /\ x.data_type = data_type
                                 /\ x.block = block}}

MaxKey(keys, latest) ==
    CHOOSE m \in keys \cup {latest} : \A k \in keys \cup {latest} : k <= m

\* the errors met in one behaviour
MaxFaults == 3

\* get_sync_tracker's own safe_db_operation after the given number of
\* transient errors: the seconds it has slept (2, then 4)
NestedSlept(errors) ==
    CASE errors = 0 -> 0
      [] errors = 1 -> InitialRetryDelay
      [] errors >= 2 -> InitialRetryDelay + 2 * InitialRetryDelay

\* one more error is met
Fault(count) ==
    /\ g_faults + count <= MaxFaults
    /\ g_faults' = g_faults + count

varsGateFrame == <<varsHarness, varsStore, varsRun, varsSync, varsHist,
                   varsSmart, varsQuarterly, varsCache, varsApi>>

\* the call: safe_db_operation(_save_..._data) begins
GateCall(data_type) ==
    /\ g_pc = "none"
    /\ UNCHANGED g_faults
    /\ g_calls < MaxCalls
    /\ g_calls' = g_calls + 1
    /\ g_pc' = "op"
    /\ g_type' = data_type
    /\ g_attempt' = 0
    /\ g_delay' = InitialRetryDelay
    /\ g_rows0' = records
    /\ g_fetches' = 0
    /\ g_age' = NONE
    /\ g_ret' = NONE
    /\ UNCHANGED <<records, g_tracker, g_block, g_data, g_pending, g_saved,
                   g_latest, g_used, g_broken, g_cache>>
    /\ UNCHANGED <<now, sync_tracker, varsGateFrame>>

\* except of safe_db_operation, reached at the given time: rollback, then
\* sleep and go round again, or raise to the caller's except
GateFailure(outcome, time) ==
    /\ g_pending' = {}
    /\ IF ShouldRetry(outcome, g_attempt)
       THEN /\ now' = time + g_delay
            /\ g_delay' = g_delay * 2
            /\ g_attempt' = g_attempt + 1
            /\ g_pc' = "op"
       ELSE /\ now' = time
            /\ g_pc' = "except"
            /\ UNCHANGED <<g_delay, g_attempt>>

\* an attempt begins with a fresh session, and the operation reads the
\* checkpoint: get_sync_tracker creates the row when there is none
GateTracker ==
    /\ g_pc = "op"
    /\ \E errors \in 0 .. max_retries - 1 :
          LET time == now + NestedSlept(errors)
          IN  /\ Fault(errors)
              /\ now' = time
              /\ sync_tracker' =
                    get_sync_tracker(sync_tracker, GateStock, g_type, time)
              /\ g_tracker' =
                    Some(TrackerDict(sync_tracker, GateStock, g_type, time))
    /\ g_pc' = "check"
    /\ g_block' = 1
    /\ g_data' = {}
    /\ g_pending' = {}
    /\ g_saved' = 0
    /\ g_latest' = NONE
    /\ g_used' = FALSE
    /\ g_broken' = FALSE
    /\ UNCHANGED <<records, g_type, g_attempt, g_delay, g_ret, g_cache,
                   g_calls, g_age, g_fetches, g_rows0>>
    /\ UNCHANGED varsGateFrame

\* get_sync_tracker raises: its transient errors outlasted its own retries,
\* or it met another error
GateTrackerRaises(outcome) ==
    /\ g_pc = "op"
    /\ \E errors \in 0 .. max_retries - 1 :
          /\ outcome = "transient" => errors = max_retries - 1
          /\ Fault(errors + 1)
          /\ GateFailure(outcome, now + NestedSlept(errors))
    /\ UNCHANGED <<records, g_type, g_tracker, g_block, g_data, g_saved,
                   g_latest, g_used, g_broken, g_ret, g_cache, g_calls, g_age,
                   g_fetches, g_rows0>>
    /\ UNCHANGED <<sync_tracker, varsGateFrame>>

\* if tracker['last_sync_time'] and (utcnow() - last_sync_time) ... :
\*     return 0, None
GateCheck ==
    /\ g_pc = "check"
    /\ UNCHANGED g_faults
    /\ g_age' = IF g_tracker[1].last_sync_time = NONE
                THEN NONE ELSE now - g_tracker[1].last_sync_time
    /\ g_pc' = IF RecentlySynced(g_type, now, g_tracker[1].last_sync_time)
               THEN "commit" ELSE "fetch"
    /\ UNCHANGED <<records, g_type, g_attempt, g_delay, g_tracker, g_block,
                   g_data, g_pending, g_saved, g_latest, g_used, g_broken,
                   g_ret, g_cache, g_calls, g_fetches, g_rows0>>
    /\ UNCHANGED <<now, sync_tracker, varsGateFrame>>

\* after a block: the next provider property, or the end of the operation
NextBlock ==
    IF g_block < NumBlocks(g_type)
    THEN g_block' = g_block + 1 /\ g_pc' = "fetch"
    ELSE g_block' = g_block /\ g_pc' = "commit"

\* the provider property is read (news: unless the cache answers) and
\* holds data; nothing to save ends the news operation with (0, None)
GateFetch(data) ==
    /\ g_pc = "fetch"
    /\ UNCHANGED g_faults
    /\ LET cached == IF g_type = "news"
                     THEN get_cached_data(g_cache, now) ELSE Nothing
           found == IF cached # Nothing THEN cached[1] ELSE data
       IN  /\ cached # Nothing => data = {}
           /\ g_fetches' = IF cached # Nothing
                           THEN g_fetches ELSE g_fetches + 1
           /\ g_cache' = IF g_type = "news" /\ cached = Nothing
                         THEN Some([data |-> data, time |-> now])
                         ELSE g_cache
           /\ g_data' = found
           /\ IF found = {}
              THEN NextBlock
              ELSE g_pc' = "store" /\ g_block' = g_block
    /\ UNCHANGED <<records, g_type, g_attempt, g_delay, g_tracker, g_pending,
                   g_saved, g_latest, g_used, g_broken, g_ret, g_calls, g_age,
                   g_rows0>>
    /\ UNCHANGED <<now, sync_tracker, varsGateFrame>>

\* the provider raises: the news operation has no handler of its own, the
\* others log the error and go on
GateFetchRaises ==
    /\ g_pc = "fetch"
    /\ Fault(1)
    /\ g_type = "news" => get_cached_data(g_cache, now) = Nothing
    /\ g_fetches' = g_fetches + 1
    /\ g_cache' = IF g_type = "news" THEN Nothing ELSE g_cache
    /\ IF g_type = "news"
       THEN GateFailure("other", now) /\ g_block' = g_block
       ELSE /\ NextBlock
            /\ UNCHANGED <<now, g_pending, g_delay, g_attempt>>
    /\ UNCHANGED <<records, g_type, g_tracker, g_data, g_saved, g_latest,
                   g_used, g_broken, g_ret, g_calls, g_age, g_rows0>>
    /\ UNCHANGED <<sync_tracker, varsGateFrame>>

\* the rows of the block's items that the query finds neither stored nor
\* added to the session
NewKeys ==
    g_data \ (StoredKeys(records, GateStock, g_type, g_block)
                \cup StoredKeys(g_pending, GateStock, g_type, g_block))

GateRow(key) ==
    [stock_id |-> GateStock, data_type |-> g_type, block |-> g_block,
     key |-> key]

\* for each item: query for an existing row, add the item when none is found
GateStore ==
    /\ g_pc = "store"
    /\ UNCHANGED g_faults
    /\ ~g_broken
    /\ g_used' = TRUE
    /\ g_pending' = g_pending \cup {GateRow(k) : k \in NewKeys}
    /\ g_saved' = g_saved + Cardinality(NewKeys)
    /\ g_latest' = MaxKey(NewKeys, g_latest)
    /\ NextBlock
    /\ UNCHANGED <<records, g_type, g_attempt, g_delay, g_tracker, g_data,
                   g_broken, g_ret, g_cache, g_calls, g_age, g_fetches,
                   g_rows0>>
    /\ UNCHANGED <<now, sync_tracker, varsGateFrame>>

\* a query of the loop raises after some of the items were added
GateStoreRaises(outcome) ==
    /\ g_pc = "store"
    /\ Fault(1)
    /\ g_used' = TRUE
    /\ g_broken' = TRUE
    /\ IF g_type = "news"
       THEN /\ GateFailure(outcome, now)
            /\ UNCHANGED <<g_block, g_saved, g_latest>>
       ELSE \E added \in SUBSET NewKeys :
               /\ g_broken => added = {}
               /\ g_pending' = g_pending \cup {GateRow(k) : k \in added}
               /\ g_saved' = g_saved + Cardinality(added)
               /\ g_latest' = MaxKey(added, g_latest)
               /\ NextBlock
               /\ UNCHANGED <<now, g_delay, g_attempt>>
    /\ UNCHANGED <<records, g_type, g_tracker, g_data, g_ret, g_cache, g_calls,
                   g_age, g_fetches, g_rows0>>
    /\ UNCHANGED <<sync_tracker, varsGateFrame>>

\* session.commit() of safe_db_operation and the return of the result
GateCommit ==
    /\ g_pc = "commit"
    /\ UNCHANGED g_faults
    /\ g_broken => g_pending = {}
    /\ records' = records \cup g_pending
    /\ g_pending' = {}
    /\ g_pc' = "after"
    /\ UNCHANGED <<g_type, g_attempt, g_delay, g_tracker, g_block, g_data,
                   g_saved, g_latest, g_used, g_broken, g_ret, g_cache,
                   g_calls, g_age, g_fetches, g_rows0>>
    /\ UNCHANGED <<now, sync_tracker, varsGateFrame>>

\* session.commit() raises; a session that sent no statement has nothing
\* to commit
GateCommitRaises(outcome) ==
    /\ g_pc = "commit"
    /\ Fault(1)
    /\ g_used
    /\ GateFailure(outcome, now)
    /\ UNCHANGED <<records, g_type, g_tracker, g_block, g_data, g_saved,
                   g_latest, g_used, g_broken, g_ret, g_cache, g_calls, g_age,
                   g_fetches, g_rows0>>
    /\ UNCHANGED <<sync_tracker, varsGateFrame>>

\* if saved_count > 0: if latest_date: update_sync_tracker(...);
\* return saved_count
GateAfter ==
    /\ g_pc = "after"
    /\ UNCHANGED g_faults
    /\ sync_tracker' =
          IF g_saved > 0 /\ g_latest # NONE
          THEN smart_update_sync_tracker(sync_tracker, GateStock, g_type, now,
                                         g_latest, g_saved, "success", "")
          ELSE sync_tracker
    /\ g_ret' = g_saved
    /\ g_pc' = "return"
    /\ UNCHANGED <<records, g_type, g_attempt, g_delay, g_tracker, g_block,
                   g_data, g_pending, g_saved, g_latest, g_used, g_broken,
                   g_cache, g_calls, g_age, g_fetches, g_rows0>>
    /\ UNCHANGED <<now, varsGateFrame>>

\* update_sync_tracker raises inside the try
GateAfterRaises ==
    /\ g_pc = "after"
    /\ Fault(1)
    /\ g_saved > 0 /\ g_latest # NONE
    /\ g_pc' = "except"
    /\ UNCHANGED <<records, g_type, g_attempt, g_delay, g_tracker, g_block,
                   g_data, g_pending, g_saved, g_latest, g_used, g_broken,
                   g_ret, g_cache, g_calls, g_age, g_fetches, g_rows0>>
    /\ UNCHANGED <<now, sync_tracker, varsGateFrame>>

\* except Exception: read the checkpoint, mark it failed, return 0
GateExcept ==
    /\ g_pc = "except"
    /\ UNCHANGED g_faults
    /\ LET read == get_sync_tracker(sync_tracker, GateStock, g_type, now)
           tracker == TrackerDict(sync_tracker, GateStock, g_type, now)
       IN  sync_tracker' =
              smart_update_sync_tracker(read, GateStock, g_type, now,
                                        tracker.last_data_date, 0, "failed",
                                        "error")
    /\ g_ret' = 0
    /\ g_pc' = "return"
    /\ UNCHANGED <<records, g_type, g_attempt, g_delay, g_tracker, g_block,
                   g_data, g_pending, g_saved, g_latest, g_used, g_broken,
                   g_cache, g_calls, g_age, g_fetches, g_rows0>>
    /\ UNCHANGED <<now, varsGateFrame>>

\* a storage call of the except block raises: the exception leaves the sync.
\* Storage that failed the operation may fail its handler too, whatever the
\* number of errors met before.
GateExceptRaises ==
    /\ g_pc = "except"
    /\ UNCHANGED g_faults
    /\ g_pc' = "raised"
    /\ UNCHANGED <<records, g_type, g_attempt, g_delay, g_tracker, g_block,
                   g_data, g_pending, g_saved, g_latest, g_used, g_broken,
                   g_ret, g_cache, g_calls, g_age, g_fetches, g_rows0>>
    /\ UNCHANGED <<now, sync_tracker, varsGateFrame>>

\* the caller goes on; the locals of the call are gone
GateEnd ==
    /\ g_pc \in {"return", "raised"}
    /\ UNCHANGED g_faults
    /\ g_pc' = "none"
    /\ g_type' = "news"
    /\ g_attempt' = 0
    /\ g_delay' = 0
    /\ g_tracker' = Nothing
    /\ g_block' = 0
    /\ g_data' = {}
    /\ g_pending' = {}
    /\ g_saved' = 0
    /\ g_latest' = NONE
    /\ g_used' = FALSE
    /\ g_broken' = FALSE
    /\ g_ret' = NONE
    /\ g_age' = NONE
    /\ g_fetches' = 0
    /\ g_rows0' = {}
    /\ UNCHANGED <<records, g_cache, g_calls>>
    /\ UNCHANGED <<now, sync_tracker, varsGateFrame>>

\* time passes between two calls: long enough for the news cache to expire
GateTick ==
    /\ g_pc = "none"
    /\ now < GateTime + CACHE_TTL
    /\ now' = now + CACHE_TTL
    /\ UNCHANGED <<varsGate, sync_tracker, varsGateFrame>>

(***************************************************************************)
(* SpecGate: calls of the three syncs for one stock.  No checkpoint is     *)
(* stored yet, or one data type's checkpoint was last written a little     *)
(* less or a little more than the type's bound before the first call.      *)
(***************************************************************************)

RecheckSeconds(data_type) ==
    CASE data_type = "news" -> NewsRecheckSeconds
      [] data_type = "financials" -> FinancialsRecheckDays * SecondsPerDay
      [] data_type = "earnings" -> EarningsRecheckDays * SecondsPerDay

\* how long before the bound the checkpoint was written, in seconds
Margins == {0 - 1, 0, 1, 5}

GateTrackerAt(data_type, margin) ==
    TrackerRow(GateStock, data_type,
               GateTime - RecheckSeconds(data_type) + margin, NONE, 0,
               "success", "")

InitGate ==
    /\ now = GateTime
    /\ sync_tracker \in
          {{}} \cup {{GateTrackerAt(dt, m)} : dt \in DataTypes, m \in Margins}
    /\ GateIdle
    /\ records = {}
    /\ g_cache = Nothing
    /\ g_calls = 0
    /\ g_faults = 0
    /\ QuarterlyUnused
    /\ CacheUnused
    /\ ApiUnused
    /\ db_aborted = FALSE
    /\ RunIdle
    /\ SyncIdle
    /\ HistIdle
    /\ SmartIdle
    /\ StoreEmpty
    /\ ValidateUnused
    /\ UpsertUnused
    /\ RetryUnused

NextGate ==
    \/ \E data_type \in DataTypes : GateCall(data_type)
    \/ GateTracker
    \/ \E outcome \in Outcomes \ {"ok"} : GateTrackerRaises(outcome)
    \/ GateCheck
    \/ \E data \in SUBSET Keys : GateFetch(data)
    \/ GateFetchRaises
    \/ GateStore
    \/ \E outcome \in Outcomes \ {"ok"} : GateStoreRaises(outcome)
    \/ GateCommit
    \/ \E outcome \in Outcomes \ {"ok"} : GateCommitRaises(outcome)
    \/ GateAfter
    \/ GateAfterRaises
    \/ GateExcept
    \/ GateExceptRaises
    \/ GateEnd
    \/ GateTick

SpecGate == InitGate /\ [][NextGate]_vars

(***************************************************************************)
(* Quarterly results.  SmartYahooSyncer.smart_sync_quarterly_results       *)
(* decides from the checkpoint and the stored rows whether to fetch, and   *)
(* saves the provider's quarters; BSEQuarterlySyncer.save_quarterly_results *)
(* saves the quarters scraped from BSE.  A quarter is a number; a column   *)
(* of the provider's frame is a record [quarter, revenue, net_profit,      *)
(* operating_profit] whose metrics may be NAN.                             *)
(***************************************************************************)

QuarterlyRecheckDays == 30
QuarterlyFreshDays == 90

\* utcnow() at the start
QuarterlyTime == 100 * SecondsPerDay

Quarters == {1, 2}

\* the date of a quarter's column: 95 and 80 days before the start
QuarterDate(quarter) == (quarter * 15 - 10) * SecondsPerDay

\* the metrics of a column: complete, restated, without operating income,
\* with zero or missing revenue, with missing net income
Metrics ==
    {[revenue |-> 100, net_profit |-> 10, operating_profit |-> 5],
     [revenue |-> 110, net_profit |-> 10, operating_profit |-> 5],
     [revenue |-> 100, net_profit |-> 10, operating_profit |-> NAN],
     [revenue |-> 0, net_profit |-> 10, operating_profit |-> 5],
     [revenue |-> NAN, net_profit |-> 10, operating_profit |-> 5],
     [revenue |-> 100, net_profit |-> NAN, operating_profit |-> 5]}

Column(quarter, m) ==
    [quarter |-> quarter, revenue |-> m.revenue, net_profit |-> m.net_profit,
     operating_profit |-> m.operating_profit]

\* the frames the provider may return: at most one column for each quarter,
\* the columns of a frame alike
QuarterlyFrames ==
    {{Column(k, m) : k \in Q} : Q \in SUBSET Quarters, m \in Metrics}

\* the data quality check: revenue and net income neither null nor zero
CriticalMetricsPresent(col) ==
    ~(col.revenue = NAN \/ col.revenue = 0
        \/ col.net_profit = NAN \/ col.net_profit = 0)

ExistingQuarter(rows, stock_id, quarter) ==
    {r \in rows : r.stock_id = stock_id /\ r.quarter = quarter}

\* _update_quarterly_record: every metric of the column that is not NaN
\* overwrites the stored one
UpdatedQuarter(row, col) ==
    [row EXCEPT
        !.revenue = IF col.revenue = NAN THEN @ ELSE col.revenue,
        !.net_profit = IF col.net_profit = NAN THEN @ ELSE col.net_profit,
        !.operating_profit =
            IF col.operating_profit = NAN THEN @ ELSE col.operating_profit]

\* QuarterlyResult.source: the column's default, which a row created
\* without a source gets
SourceDefault == "BSE"

\* the sources that write quarterly results
Sources == {"BSE", "Screener"}

\* _create_quarterly_record: None when the margins cannot be computed (the
\* operating margin divides operating_profit, None when the column has no
\* operating income, whenever revenue and net_profit are set)
CreatedQuarter(stock_id, col) ==
    LET value(v) == IF v = NAN THEN NONE ELSE v
        revenue == value(col.revenue)
        net_profit == value(col.net_profit)
        operating_profit == value(col.operating_profit)
    IN  IF revenue # NONE /\ revenue # 0 /\ net_profit # NONE
           /\ net_profit # 0 /\ operating_profit = NONE
        THEN Nothing
        ELSE Some([stock_id |-> stock_id, quarter |-> col.quarter,
                   revenue |-> revenue, net_profit |-> net_profit,
                   operating_profit |-> operating_profit,
                   source |-> SourceDefault])

\* the columns _save_quarterly_data processes
Processed(data) == {col \in data : CriticalMetricsPresent(col)}

\* _save_quarterly_data: the table after the loop and the commit
SmartSavedQuarters(rows, stock_id, data) ==
    LET cols == Processed(data)
        found == {col \in cols :
                     ExistingQuarter(rows, stock_id, col.quarter) # {}}
        updated == UNION {{UpdatedQuarter(r, col) :
                             r \in ExistingQuarter(rows, stock_id,
                                                   col.quarter)} :
                          col \in found}
        created == {CreatedQuarter(stock_id, col)[1] :
                       col \in {c \in cols \ found :
                                   CreatedQuarter(stock_id, c) # Nothing}}
        kept == {r \in rows :
                    ~\E col \in found : r.stock_id = stock_id
                                        /\ r.quarter = col.quarter}
    IN  kept \cup updated \cup created

\* saved_count: the rows created
SmartSavedCount(rows, stock_id, data) ==
    Cardinality({col \in Processed(data) :
                    /\ ExistingQuarter(rows, stock_id, col.quarter) = {}
                    /\ CreatedQuarter(stock_id, col) # Nothing})

\* latest_date: the latest date among the columns processed
SmartLatestDate(data) ==
    IF Processed(data) = {}
    THEN NONE
    ELSE QuarterDate(CHOOSE k \in {c.quarter : c \in Processed(data)} :
                        \A c \in Processed(data) : c.quarter <= k)

\* a value of a scraped quarter: None where the page had none
Scraped(v) == IF v = NAN THEN NONE ELSE v

\* BSEQuarterlySyncer.save_quarterly_results: every key of the scraped
\* quarter is set on the existing row, or a row is created
BseSavedQuarters(rows, stock_id, data) ==
    {r \in rows : ~\E col \in data : r.stock_id = stock_id
                                     /\ r.quarter = col.quarter}
       \cup {[stock_id |-> stock_id, quarter |-> col.quarter,
              revenue |-> Scraped(col.revenue),
              net_profit |-> Scraped(col.net_profit),
              operating_profit |-> Scraped(col.operating_profit),
              source |-> "BSE"] :
                 col \in data}

BseSavedCount(rows, stock_id, data) ==
    Cardinality({col \in data :
                    ExistingQuarter(rows, stock_id, col.quarter) = {}})

\* the calls made in one behaviour
MaxQuarterlyCalls == 2

\* the age of the last sync alone decides
QuarterlyRecentlySyncedByAttempt(tracker, quarterly_count, utcnow, local_now) ==
    /\ tracker.last_sync_time # NONE
    /\ quarterly_count # 0
    /\ days(utcnow - tracker.last_sync_time) < QuarterlyRecheckDays

\* the condition under which smart_sync_quarterly_results returns 0 before
\* it looks for data: rows exist, and the last sync is less than 30 days
\* old or the last data less than 90 days old
QuarterlyRecentlySynced(tracker, quarterly_count, utcnow, local_now) ==
    /\ tracker.last_sync_time # NONE
    /\ quarterly_count # 0
    /\ \/ days(utcnow - tracker.last_sync_time) < QuarterlyRecheckDays
       \/ /\ tracker.last_data_date # NONE
          /\ days(local_now - tracker.last_data_date) < QuarterlyFreshDays

varsQuarterlyFrame == <<varsHarness, varsStore, varsRun, varsSync, varsHist,
                        varsSmart, varsGate, varsCache, varsApi>>

\* return n
QuarterlyReturn(n) ==
    /\ q_pc' = "return"
    /\ q_ret' = n

QuarterlyCall ==
    /\ q_pc = "none"
    /\ q_calls < MaxQuarterlyCalls
    /\ q_calls' = q_calls + 1
    /\ q_pc' = "tracker"
    /\ q_syncer' = "smart"
    /\ q_rows0' = quarterly_results
    /\ UNCHANGED <<quarterly_results, q_tz, q_tracker, q_data, q_saved,
                   q_latest, q_ret, q_cache, q_count, q_age, q_passed>>
    /\ UNCHANGED <<now, sync_tracker, varsQuarterlyFrame>>

\* tracker = self.get_sync_tracker(stock_id, 'quarterly_results')
QuarterlyTracker ==
    /\ q_pc = "tracker"
    /\ sync_tracker' =
          get_sync_tracker(sync_tracker, GateStock, "quarterly_results", now)
    /\ q_tracker' =
          Some(TrackerDict(sync_tracker, GateStock, "quarterly_results", now))
    /\ q_pc' = "gate"
    /\ UNCHANGED <<quarterly_results, q_syncer, q_tz, q_data, q_saved,
                   q_latest, q_ret, q_cache, q_calls, q_count, q_age,
                   q_passed, q_rows0>>
    /\ UNCHANGED <<now, varsQuarterlyFrame>>

\* a storage call before the fetch raises: except Exception: return 0
QuarterlyGateRaises ==
    /\ q_pc \in {"tracker", "gate"}
    /\ QuarterlyReturn(0)
    /\ UNCHANGED <<quarterly_results, q_syncer, q_tz, q_tracker, q_data,
                   q_saved, q_latest, q_cache, q_calls, q_count, q_age,
                   q_passed, q_rows0>>
    /\ UNCHANGED <<now, sync_tracker, varsQuarterlyFrame>>

\* the rows of the stock are counted and the sync returns 0 or goes on
QuarterlyGate ==
    /\ q_pc = "gate"
    /\ LET quarterly_count ==
              Cardinality({r \in quarterly_results : r.stock_id = GateStock})
       IN  /\ q_count' = quarterly_count
           /\ q_age' = now - q_tracker[1].last_sync_time
           /\ IF QuarterlyRecentlySynced(q_tracker[1], quarterly_count, now,
                                         now + q_tz)
              THEN QuarterlyReturn(0) /\ q_passed' = FALSE
              ELSE q_pc' = "fetch" /\ q_ret' = q_ret /\ q_passed' = TRUE
    /\ UNCHANGED <<quarterly_results, q_syncer, q_tz, q_tracker, q_data,
                   q_saved, q_latest, q_cache, q_calls, q_rows0>>
    /\ UNCHANGED <<now, sync_tracker, varsQuarterlyFrame>>

\* the cache or the provider gives the frame; no frame or an empty one
\* ends the sync
QuarterlyFetch(data) ==
    /\ q_pc = "fetch"
    /\ LET cached == get_cached_data(q_cache, now)
           found == IF cached # Nothing THEN cached[1] ELSE data
       IN  /\ cached # Nothing => data = {}
           /\ q_cache' = IF cached = Nothing
                         THEN Some([data |-> data, time |-> now])
                         ELSE q_cache
           /\ q_data' = found
           /\ IF found = {}
              THEN QuarterlyReturn(0)
              ELSE q_pc' = "save" /\ q_ret' = q_ret
    /\ UNCHANGED <<quarterly_results, q_syncer, q_tz, q_tracker, q_saved,
                   q_latest, q_calls, q_count, q_age, q_passed, q_rows0>>
    /\ UNCHANGED <<now, sync_tracker, varsQuarterlyFrame>>

\* the provider raises: except Exception: return 0
QuarterlyFetchRaises ==
    /\ q_pc = "fetch"
    /\ get_cached_data(q_cache, now) = Nothing
    /\ q_cache' = Nothing
    /\ QuarterlyReturn(0)
    /\ UNCHANGED <<quarterly_results, q_syncer, q_tz, q_tracker, q_data,
                   q_saved, q_latest, q_calls, q_count, q_age, q_passed,
                   q_rows0>>
    /\ UNCHANGED <<now, sync_tracker, varsQuarterlyFrame>>

\* safe_db_operation(_save_quarterly_data): the loop and the commit
QuarterlySave ==
    /\ q_pc = "save"
    /\ quarterly_results' =
          SmartSavedQuarters(quarterly_results, GateStock, q_data)
    /\ q_saved' = SmartSavedCount(quarterly_results, GateStock, q_data)
    /\ q_latest' = SmartLatestDate(q_data)
    /\ q_pc' = "after"
    /\ UNCHANGED <<q_syncer, q_tz, q_tracker, q_data, q_ret, q_cache, q_calls,
                   q_count, q_age, q_passed, q_rows0>>
    /\ UNCHANGED <<now, sync_tracker, varsQuarterlyFrame>>

\* safe_db_operation raises
QuarterlySaveRaises ==
    /\ q_pc = "save"
    /\ q_pc' = "except"
    /\ UNCHANGED <<quarterly_results, q_syncer, q_tz, q_tracker, q_data,
                   q_saved, q_latest, q_ret, q_cache, q_calls, q_count, q_age,
                   q_passed, q_rows0>>
    /\ UNCHANGED <<now, sync_tracker, varsQuarterlyFrame>>

\* if saved_count > 0: if latest_date: update_sync_tracker(...);
\* return saved_count
QuarterlyAfter ==
    /\ q_pc = "after"
    /\ sync_tracker' =
          IF q_saved > 0 /\ q_latest # NONE
          THEN smart_update_sync_tracker(sync_tracker, GateStock,
                                         "quarterly_results", now, q_latest,
                                         q_saved, "success", "")
          ELSE sync_tracker
    /\ QuarterlyReturn(q_saved)
    /\ UNCHANGED <<quarterly_results, q_syncer, q_tz, q_tracker, q_data,
                   q_saved, q_latest, q_cache, q_calls, q_count, q_age,
                   q_passed, q_rows0>>
    /\ UNCHANGED <<now, varsQuarterlyFrame>>

\* update_sync_tracker raises inside the try
QuarterlyAfterRaises ==
    /\ q_pc = "after"
    /\ q_saved > 0 /\ q_latest # NONE
    /\ q_pc' = "except"
    /\ UNCHANGED <<quarterly_results, q_syncer, q_tz, q_tracker, q_data,
                   q_saved, q_latest, q_ret, q_cache, q_calls, q_count, q_age,
                   q_passed, q_rows0>>
    /\ UNCHANGED <<now, sync_tracker, varsQuarterlyFrame>>

\* except Exception: read the checkpoint, mark it failed, return 0
QuarterlyExcept ==
    /\ q_pc = "except"
    /\ LET read == get_sync_tracker(sync_tracker, GateStock,
                                    "quarterly_results", now)
           tracker == TrackerDict(sync_tracker, GateStock,
                                  "quarterly_results", now)
       IN  sync_tracker' =
              smart_update_sync_tracker(read, GateStock, "quarterly_results",
                                        now, tracker.last_data_date, 0,
                                        "failed", "error")
    /\ QuarterlyReturn(0)
    /\ UNCHANGED <<quarterly_results, q_syncer, q_tz, q_tracker, q_data,
                   q_saved, q_latest, q_cache, q_calls, q_count, q_age,
                   q_passed, q_rows0>>
    /\ UNCHANGED <<now, varsQuarterlyFrame>>

\* a storage call of the except block raises: the exception leaves the sync
QuarterlyExceptRaises ==
    /\ q_pc = "except"
    /\ q_pc' = "raised"
    /\ UNCHANGED <<quarterly_results, q_syncer, q_tz, q_tracker, q_data,
                   q_saved, q_latest, q_ret, q_cache, q_calls, q_count, q_age,
                   q_passed, q_rows0>>
    /\ UNCHANGED <<now, sync_tracker, varsQuarterlyFrame>>

\* BSEQuarterlySyncer.save_quarterly_results(stock_id, quarterly_results)
BseSave(data) ==
    /\ q_pc = "none"
    /\ q_calls < MaxQuarterlyCalls
    /\ q_calls' = q_calls + 1
    /\ q_syncer' = "bse"
    /\ q_rows0' = quarterly_results
    /\ q_data' = data
    /\ quarterly_results' = BseSavedQuarters(quarterly_results, GateStock, data)
    /\ q_saved' = BseSavedCount(quarterly_results, GateStock, data)
    /\ QuarterlyReturn(BseSavedCount(quarterly_results, GateStock, data))
    /\ UNCHANGED <<q_tz, q_tracker, q_latest, q_cache, q_count, q_age,
                   q_passed>>
    /\ UNCHANGED <<now, sync_tracker, varsQuarterlyFrame>>

\* safe_db_operation raises: except Exception: return 0
BseSaveRaises(data) ==
    /\ q_pc = "none"
    /\ q_calls < MaxQuarterlyCalls
    /\ q_calls' = q_calls + 1
    /\ q_syncer' = "bse"
    /\ q_rows0' = quarterly_results
    /\ q_data' = data
    /\ QuarterlyReturn(0)
    /\ UNCHANGED <<quarterly_results, q_tz, q_tracker, q_saved, q_latest,
                   q_cache, q_count, q_age, q_passed>>
    /\ UNCHANGED <<now, sync_tracker, varsQuarterlyFrame>>

\* the caller goes on; the locals of the call are gone
QuarterlyEnd ==
    /\ q_pc \in {"return", "raised"}
    /\ q_pc' = "none"
    /\ q_syncer' = "smart"
    /\ q_tracker' = Nothing
    /\ q_data' = {}
    /\ q_saved' = 0
    /\ q_latest' = NONE
    /\ q_ret' = NONE
    /\ q_count' = NONE
    /\ q_age' = NONE
    /\ q_passed' = FALSE
    /\ q_rows0' = {}
    /\ UNCHANGED <<quarterly_results, q_tz, q_cache, q_calls>>
    /\ UNCHANGED <<now, sync_tracker, varsQuarterlyFrame>>

(***************************************************************************)
(* SpecQuarterly: calls of the two quarterly syncs for one stock.  The     *)
(* stock holds no quarter, the older quarter, or both; its checkpoint is   *)
(* absent, or was written 30 days or one second less before the start,     *)
(* with the date of the latest stored quarter or none.                     *)
(***************************************************************************)

StoredQuarter(quarter, source) ==
    [stock_id |-> GateStock, quarter |-> quarter, revenue |-> 100,
     net_profit |-> 10, operating_profit |-> 5, source |-> source]

\* local time ahead of UTC: none, or 5 h 30 min
UtcOffsets == {0, 19800}

InitQuarterly ==
    /\ now = QuarterlyTime
    /\ q_tz \in UtcOffsets
    /\ \E held \in {{}, {1}, {1, 2}}, source \in Sources :
          /\ quarterly_results = {StoredQuarter(k, source) : k \in held}
          /\ sync_tracker \in
                {{}} \cup
                {{TrackerRow(GateStock, "quarterly_results",
                             QuarterlyTime
                               - QuarterlyRecheckDays * SecondsPerDay + m,
                             d, Cardinality(held), "success", "")} :
                    m \in {0, 1},
                    d \in {NONE} \cup {QuarterDate(k) :
                                          k \in {x \in held :
                                                   \A y \in held : y <= x}}}
    /\ QuarterlyIdle
    /\ q_cache = Nothing
    /\ q_calls = 0
    /\ CacheUnused
    /\ ApiUnused
    /\ db_aborted = FALSE
    /\ RunIdle
    /\ SyncIdle
    /\ HistIdle
    /\ SmartIdle
    /\ StoreEmpty
    /\ ValidateUnused
    /\ UpsertUnused
    /\ RetryUnused
    /\ GateUnused

NextQuarterly ==
    \/ QuarterlyCall
    \/ QuarterlyTracker
    \/ QuarterlyGateRaises
    \/ QuarterlyGate
    \/ \E data \in QuarterlyFrames : QuarterlyFetch(data)
    \/ QuarterlyFetchRaises
    \/ QuarterlySave
    \/ QuarterlySaveRaises
    \/ QuarterlyAfter
    \/ QuarterlyAfterRaises
    \/ QuarterlyExcept
    \/ QuarterlyExceptRaises
    \/ \E data \in QuarterlyFrames : BseSave(data)
    \/ \E data \in QuarterlyFrames : BseSaveRaises(data)
    \/ QuarterlyEnd

SpecQuarterly == InitQuarterly /\ [][NextQuarterly]_vars

(***************************************************************************)
(* The fetch cache of SmartYahooSyncer: get_cached_data and                *)
(* set_cached_data on self.cache and self.cache_timestamps.  The two       *)
(* dictionaries always hold the same keys in the same order, and are kept  *)
(* as one sequence of entries [key, data, time].                           *)
(***************************************************************************)

\* the entries the cache may hold: 1000 in the source, scaled down
CACHE_SIZE == 2

\* the values cached
CacheData == {1, 2}

\* the seconds the clock advances by between two calls: half the lifetime
\* of an entry
CacheSteps == {CACHE_TTL \div 2}

\* the times the clock advances
MaxCacheTicks == 3

CachedKeys(cache) == {cache[i].key : i \in 1 .. Len(cache)}

\* the position of a cached key
IndexOf(cache, cache_key) ==
    CHOOSE i \in 1 .. Len(cache) : cache[i].key = cache_key

\* the entry of a key, <<>> when cache_key not in self.cache
CacheSlot(cache, cache_key) ==
    IF cache_key \in CachedKeys(cache)
    THEN Some(cache[IndexOf(cache, cache_key)])
    ELSE Nothing

\* del self.cache[key]; del self.cache_timestamps[key]
RemoveAt(cache, i) ==
    [j \in 1 .. Len(cache) - 1 |-> IF j < i THEN cache[j] ELSE cache[j + 1]]

\* the entry set last
NewestIndex(cache) ==
    CHOOSE i \in 1 .. Len(cache) :
        /\ \A j \in 1 .. Len(cache) : cache[j].time <= cache[i].time
        /\ \A j \in 1 .. i - 1 : cache[j].time < cache[i].time

\* line 117: min(self.cache_timestamps.keys(), key=...), the first of the
\* keys with the least timestamp in the order of the dictionary
OldestIndex(cache) ==
    CHOOSE i \in 1 .. Len(cache) :
        /\ \A j \in 1 .. Len(cache) : cache[i].time <= cache[j].time
        /\ \A j \in 1 .. i - 1 : cache[i].time < cache[j].time

\* lines 115-122: a full cache loses its oldest entry, whatever the key
\* that is set; an existing key keeps its place in the dictionary
set_cached_data(cache, cache_key, data, time) ==
    LET kept == IF Len(cache) >= CACHE_SIZE
                THEN RemoveAt(cache, OldestIndex(cache))
                ELSE cache
        entry == [key |-> cache_key, data |-> data, time |-> time]
    IN  IF cache_key \in CachedKeys(kept)
        THEN [kept EXCEPT ![IndexOf(kept, cache_key)] = entry]
        ELSE Append(kept, entry)

\* lines 106-109: get_cached_data deletes the entry it finds expired
CacheAfterGet(cache, cache_key, time) ==
    IF /\ cache_key \in CachedKeys(cache)
       /\ get_cached_data(CacheSlot(cache, cache_key), time) = Nothing
    THEN RemoveAt(cache, IndexOf(cache, cache_key))
    ELSE cache

\* the history of the entries still cached
Kept(history, cache) ==
    [k \in CacheKeys |-> IF k \in CachedKeys(cache) THEN history[k] ELSE NONE]

\* the cached keys whose entry was set first
OldestKeys ==
    {k \in CachedKeys(c_cache) :
        \A x \in CachedKeys(c_cache) : c_inserted[k] <= c_inserted[x]}

\* what is recorded of a call
Called(op, cache_key, after) ==
    [op |-> op,
     key |-> cache_key,
     had |-> cache_key \in CachedKeys(c_cache),
     age |-> IF c_inserted[cache_key] = NONE
             THEN NONE ELSE now - c_inserted[cache_key],
     len0 |-> Len(c_cache),
     oldest |-> OldestKeys,
     gone |-> CachedKeys(c_cache) \ CachedKeys(after),
     gone_read |-> IF CachedKeys(c_cache) \ CachedKeys(after) = {}
                   THEN NONE
                   ELSE c_read[CHOOSE k \in CachedKeys(c_cache)
                                               \ CachedKeys(after) : TRUE]]

varsCacheFrame == <<varsHarness, varsStore, varsTracker, varsRun, varsSync,
                    varsHist, varsSmart, varsGate, varsQuarterly, varsApi>>

\* get_cached_data(cache_key)
CacheGet(cache_key) ==
    LET after == CacheAfterGet(c_cache, cache_key, now)
        found == get_cached_data(CacheSlot(c_cache, cache_key), now)
    IN  /\ c_ret' = found
        /\ c_cache' = after
        /\ c_inserted' = Kept(c_inserted, after)
        /\ c_read' = IF found # Nothing
                      THEN [c_read EXCEPT ![cache_key] = now]
                      ELSE Kept(c_read, after)
        /\ c_last' = Called("get", cache_key, after)
        /\ UNCHANGED <<now, c_ticks, varsCacheFrame>>

\* set_cached_data(cache_key, data)
CacheSet(cache_key, data) ==
    LET after == set_cached_data(c_cache, cache_key, data, now)
    IN  /\ c_cache' = after
        /\ c_inserted' = [Kept(c_inserted, after) EXCEPT ![cache_key] = now]
        /\ c_read' = [Kept(c_read, after) EXCEPT ![cache_key] = NONE]
        /\ c_last' = Called("set", cache_key, after)
        /\ UNCHANGED <<now, c_ret, c_ticks, varsCacheFrame>>

\* time.time() advances between two calls
CacheTick(step) ==
    /\ c_ticks < MaxCacheTicks
    /\ c_ticks' = c_ticks + 1
    /\ now' = now + step
    /\ UNCHANGED <<c_cache, c_ret, c_inserted, c_read, c_last, varsCacheFrame>>

(***************************************************************************)
(* SpecCache: gets and sets on the cache of a new syncer.                  *)
(***************************************************************************)
InitCache ==
    /\ CacheUnused
    /\ ApiUnused
    /\ QuarterlyUnused
    /\ GateUnused
    /\ DailyUnused
    /\ StoreEmpty
    /\ ValidateUnused
    /\ UpsertUnused
    /\ RetryUnused

NextCache ==
    \/ \E cache_key \in CacheKeys : CacheGet(cache_key)
    \/ \E cache_key \in CacheKeys, data \in CacheData :
          CacheSet(cache_key, data)
    \/ \E step \in CacheSteps : CacheTick(step)

SpecCache == InitCache /\ [][NextCache]_vars

(***************************************************************************)
(* The sync API.  trigger_daily_sync is a coroutine without an await: it   *)
(* runs from its test of sync_status to its return in one step.  The task  *)
(* it adds starts at some time after the response, other requests being    *)
(* handled in between.  run_daily_sync is a coroutine without an await     *)
(* either and calls the blocking sync_all_stocks: from its first statement *)
(* to its last it holds the event loop, and no request is handled.         *)
(***************************************************************************)

\* the requests made in one behaviour
MaxTriggers == 3

\* the times the clock advances in one behaviour
MaxApiTicks == 3

varsApiFrame == <<varsHarness, varsStore, varsDaily, varsSmart, varsGate,
                  varsQuarterly, varsCache>>

\* trigger_daily_sync
TriggerDailySync ==
    /\ a_pc = "free"
    /\ a_triggers < MaxTriggers
    /\ a_triggers' = a_triggers + 1
    /\ IF sync_status.is_running
       THEN /\ a_response' = 400
            /\ UNCHANGED a_queue
       ELSE /\ a_queue' = a_queue + 1
            /\ a_response' = 200
    /\ UNCHANGED <<sync_status, a_pc, a_now>>
    /\ UNCHANGED varsApiFrame

\* run_daily_sync up to the call of sync_all_stocks
RunDailySync ==
    /\ a_pc = "free"
    /\ a_queue > 0
    /\ a_queue' = a_queue - 1
    /\ a_pc' = "task"
    /\ sync_status' = [sync_status EXCEPT !.is_running = TRUE,
                                          !.last_run = a_now,
                                          !.error = NONE]
    /\ UNCHANGED <<a_response, a_triggers, a_now>>
    /\ UNCHANGED varsApiFrame

\* sync_all_stocks returns
RunDailySyncReturns ==
    /\ a_pc = "task"
    /\ a_pc' = "free"
    /\ sync_status' = [sync_status EXCEPT !.last_success = a_now,
                                          !.is_running = FALSE]
    /\ UNCHANGED <<a_queue, a_response, a_triggers, a_now>>
    /\ UNCHANGED varsApiFrame

\* the import or sync_all_stocks raises: except Exception (1 for str(e))
RunDailySyncRaises ==
    /\ a_pc = "task"
    /\ a_pc' = "free"
    /\ sync_status' = [sync_status EXCEPT !.error = 1,
                                          !.is_running = FALSE]
    /\ UNCHANGED <<a_queue, a_response, a_triggers, a_now>>
    /\ UNCHANGED varsApiFrame

\* time passes, during a sync too
ApiTick ==
    /\ a_now < MaxApiTicks
    /\ a_now' = a_now + 1
    /\ UNCHANGED <<sync_status, a_pc, a_queue, a_response, a_triggers>>
    /\ UNCHANGED varsApiFrame

InitApi ==
    /\ ApiUnused
    /\ CacheUnused
    /\ QuarterlyUnused
    /\ GateUnused
    /\ DailyUnused
    /\ StoreEmpty
    /\ ValidateUnused
    /\ UpsertUnused
    /\ RetryUnused

NextApi ==
    \/ TriggerDailySync
    \/ RunDailySync
    \/ RunDailySyncReturns
    \/ RunDailySyncRaises
    \/ ApiTick

SpecApi == InitApi /\ [][NextApi]_vars

(***************************************************************************)
(*                              CLAIMS                                     *)
(***************************************************************************)

\* ---- C1 ----------------------------------------------------------------
\* C1: for any candidate batch handed to save_ohlcv_data for a stock, the
\* number of rows inserted, and the count returned, equals the number of
\* candidate dates that were not already stored for that stock.  (Stated for
\* the calls in which the storage does not raise.)
C1_InsertsOnlyMissingDates ==
    (u_pc = "done" /\ ~u_failed) =>
        LET missing == {r \in u_data : r.date \notin StoredDays(u_before, u_stock)}
        IN  /\ u_returned = Cardinality(missing)
            /\ CountOf(daily_prices, u_stock) - CountOf(u_before, u_stock)
                  = Cardinality(missing)

\* ---- C5 ----------------------------------------------------------------
\* the inputs on which every relative delta is defined: a local record whose
\* prices are positive numbers, and remote prices that are numbers
C5_Numeric ==
    /\ v_db # Nothing
    /\ \A f \in PriceFields : v_db[1][f] > 0 /\ v_yahoo[f] >= 0

\* |local - remote| / local <= tolerance, for every price field
C5_PricesWithinTolerance ==
    \A f \in PriceFields :
        Abs(v_db[1][f] - v_yahoo[f]) * ToleranceDen <= ToleranceNum * v_db[1][f]

\* the volume check has nothing to compare (a volume is None or 0), or the
\* remote volume is a number within 10% of the local one
C5_VolumeWithinTolerance ==
    \/ v_db[1].volume \in {NONE, 0}
    \/ v_yahoo.volume \in {NONE, 0}
    \/ /\ v_yahoo.volume > 0
       /\ Abs(v_db[1].volume - v_yahoo.volume) * VolumeTolDen
             <= VolumeTolNum * v_db[1].volume

\* the example of the claim: local 100.0 throughout, the volumes equal, the
\* remote record equal to the local one except for its close
C5_Example(remote_close) ==
    /\ v_db = Some([open |-> 10000, high |-> 10000, low |-> 10000,
                    close |-> 10000, volume |-> 1000])
    /\ v_yahoo = [open |-> 10000, high |-> 10000, low |-> 10000,
                  close |-> remote_close, volume |-> 1000]

\* C5 as stated: validate_ohlcv_data passes when the relative delta of every
\* price field is at most the tolerance, and fails when one exceeds it.
C5_Original ==
    (v_result # "pending" /\ C5_Numeric) =>
        (v_result = "True" <=> C5_PricesWithinTolerance)

\* C5 as amended: validate_ohlcv_data passes exactly when the relative delta
\* of every price field is at most the tolerance (a delta equal to the
\* tolerance passes) and the volume check passes too; with local close 100.0
\* and tolerance 0.01, remote 101.0 passes and remote 101.01 fails.
C5_ToleranceBoundary ==
    /\ (v_result # "pending" /\ C5_Numeric) =>
          (v_result = "True" <=>
              (C5_PricesWithinTolerance /\ C5_VolumeWithinTolerance))
    /\ (v_result # "pending" /\ C5_Example(10100)) => v_result = "True"
    /\ (v_result # "pending" /\ C5_Example(10101)) => v_result = "False"

\* a validation that passed with the close exactly 1% above the local close
C5_Witness ==
    /\ v_result = "True"
    /\ C5_Example(10100)

\* ---- C2 ----------------------------------------------------------------
\* the sync in progress has returned
C2_Returned == pc = "return" \/ m_pc = "return"

\* the stock of the sync in progress
C2_Stock == IF pc # "none" THEN stock ELSE m_stock

\* the rows of a stock, as a bag
C2_BagOf(prices, stock_id) ==
    [r \in RowsOf(prices, stock_id) |-> prices[r]]

\* C2: a sync of a stock (sync_stock_ohlcv or smart_sync_ohlcv) that follows
\* an earlier one, and during which the provider returned no bar of a day
\* that was not stored already, inserts nothing: when it returns, the rows
\* stored for the stock are the rows that were stored when it began.
C2_SecondRunInsertsNothing ==
    (C2_Returned /\ syncs >= 2 /\ ~h_new) =>
        C2_BagOf(daily_prices, C2_Stock) = C2_BagOf(h_rows0, C2_Stock)

\* ---- C3 ----------------------------------------------------------------
\* C3: once validation has failed in sync_stock_ohlcv and the sync goes on
\* to the rebuild, no row of the stock is stored when the complete fetch and
\* the rebuild insert begin; and once the rebuild has inserted, the number of
\* rows stored for the stock is the number of rows of the provider's
\* full-window response.
C3_RefreshCorrectness ==
    /\ (pc \in {"refetch", "save"} /\ h_validation = "fail") =>
          RowsOf(daily_prices, stock) = {}
    /\ h_refresh = "rebuilt" =>
          CountOf(daily_prices, stock) = Cardinality(yahoo_data[1])

\* a rebuild of two bars, of a stock that held a bar before
C3_Witness ==
    /\ h_refresh = "rebuilt"
    /\ CountOf(h_rows0, stock) > 0
    /\ Cardinality(yahoo_data[1]) = 2

\* ---- C4 ----------------------------------------------------------------
\* C4: when the complete fetch returns nothing after the refresh has deleted
\* the rows of the stock, the sync returns with no row stored for the stock
\* and with the stock's ohlcv checkpoint marked failed.
C4_RefetchFailureMarkedFailed ==
    (pc = "return" /\ h_refresh = "refetch_failed") =>
        /\ RowsOf(daily_prices, stock) = {}
        /\ \E t \in TrackerOf(sync_tracker, stock, "ohlcv") :
              t.sync_status = "failed"

\* ---- C8 ----------------------------------------------------------------
\* the batches of a run: ceil(total_stocks / batch_size)
C8_Batches == (total_stocks + batch_size - 1) \div batch_size

\* C8: a fetch that raises for a stock never stops a run of sync_all_stocks:
\* the run is aborted only when a storage call raised, and a run that was
\* not aborted has processed every stock (the stocks after the one whose
\* fetch raised too, in its batch and in the later batches) and committed
\* every batch.
C8_RunIsolation ==
    /\ run_pc = "aborted" => h_db_errors
    /\ run_pc = "done" =>
          /\ syncs = total_stocks
          /\ success_count + failed_count = total_stocks
          /\ commits = C8_Batches

\* a finished run in which the fetch raised for the first stock and for no
\* other, and no storage call raised
C8_Witness ==
    /\ run_pc = "done"
    /\ h_fetch_errors = {1}
    /\ ~h_db_errors
    /\ syncs = total_stocks
    /\ commits = C8_Batches

\* ---- C9 ----------------------------------------------------------------
\* C9: the store never holds two daily price rows with the same stock and
\* the same date.
C9_UniquePerStockAndDate ==
    \A r1 \in BagToSet(daily_prices) :
        /\ CopiesIn(r1, daily_prices) = 1
        /\ \A r2 \in BagToSet(daily_prices) :
              (r1.stock_id = r2.stock_id /\ r1.date = r2.date) => r1 = r2

\* ---- C10 ---------------------------------------------------------------
\* a step removes a copy of row r from the store
C10_Removes(r) == CopiesIn(r, daily_prices') < CopiesIn(r, daily_prices)

\* C10: a step removes a daily price row only if it is the delete of the
\* refresh of that row's stock, made after validate_ohlcv_data returned
\* False in the same sync; and as long as validation has not failed in a
\* sync, every row stored when the sync began is still stored.
C10_DeleteOnlyOnRefresh ==
    /\ [][\A r \in BagToSet(daily_prices) :
             C10_Removes(r) =>
                 /\ pc = "delete"
                 /\ pc' = "refetch"
                 /\ h_validation = "fail"
                 /\ r.stock_id = stock]_vars
    /\ []((pc # "none" /\ h_validation # "fail") =>
             h_rows0 \sqsubseteq daily_prices)

\* the delete of a refresh has removed the rows of the stock
C10_Witness ==
    /\ pc = "refetch"
    /\ h_validation = "fail"
    /\ CountOf(h_rows0, stock) > 0
    /\ RowsOf(daily_prices, stock) = {}

\* ---- C7 ----------------------------------------------------------------
\* the attempts made so far
C7_Attempts == Len(r_outcomes)

\* the call is over
C7_Over == r_pc \in {"returned", "raised", "returned_none"}

\* the storage fails the first n attempts with the transient error
C7_TransientFirst(n) == \A k \in 1 .. n : r_script[k] = "transient"

\* C7: safe_db_operation makes at most 3 attempts, and makes attempt k+1 only
\* after attempt k failed with the transient error, having slept 2 s before
\* the second attempt and 4 s before the third; the call returns exactly
\* when its last attempt succeeded, and raises when an attempt failed with
\* another error or when the third attempt failed.  Two transient failures
\* then a success: 3 attempts and a result; three transient failures: the
\* error is raised after the third attempt.
C7_RetryBudget ==
    /\ C7_Attempts <= max_retries
    /\ \A k \in 1 .. C7_Attempts - 1 : r_outcomes[k] = "transient"
    /\ Len(r_sleeps) <= 2
    /\ \A i \in 1 .. Len(r_sleeps) : i <= 2 => r_sleeps[i] = <<2, 4>>[i]
    /\ Len(r_sleeps) = IF C7_Over THEN C7_Attempts - 1 ELSE C7_Attempts
    /\ r_pc # "returned_none"
    /\ r_pc = "returned" => r_outcomes[C7_Attempts] = "ok"
    /\ r_pc = "raised" =>
          \/ r_outcomes[C7_Attempts] = "other"
          \/ r_outcomes[C7_Attempts] = "transient" /\ C7_Attempts = max_retries
    /\ r_pc = "running" =>
          C7_Attempts = 0 \/ r_outcomes[C7_Attempts] = "transient"
    /\ (C7_Over /\ C7_TransientFirst(2) /\ r_script[3] = "ok") =>
          r_pc = "returned" /\ C7_Attempts = 3
    /\ (C7_Over /\ C7_TransientFirst(3)) =>
          r_pc = "raised" /\ C7_Attempts = 3

\* two transient failures, then the third attempt succeeded
C7_Witness ==
    /\ r_pc = "returned"
    /\ r_outcomes = <<"transient", "transient", "ok">>
    /\ r_sleeps = <<2, 4>>

\* the re-check intervals, in seconds
C6_Interval(data_type) ==
    CASE data_type = "news" -> 3600
      [] data_type = "financials" -> 7 * 86400
      [] data_type = "earnings" -> 30 * 86400

\* the operation of the call in progress has compared the checkpoint's
\* last_sync_time with the clock, and it lay within the interval
C6_WithinInterval ==
    /\ g_pc # "none"
    /\ g_age # NONE
    /\ 0 <= g_age
    /\ g_age < C6_Interval(g_type)

\* C6: in smart_sync_news, smart_sync_financials and smart_sync_earnings,
\* whenever the operation finds the checkpoint's last_sync_time less than the
\* data type's re-check interval (1 hour, 7 days, 30 days) before the clock,
\* the sync is skipped: no provider property is read, no row is added or
\* stored, the operation ends without an error and the sync returns 0.
C6_StalenessGating ==
    C6_WithinInterval =>
        /\ g_fetches = 0
        /\ records = g_rows0
        /\ g_pending = {}
        /\ g_pc \in {"commit", "after", "return"}
        /\ g_pc = "return" => g_ret = 0

\* a sync of earnings returned after it found a checkpoint older than a week
\* and younger than 30 days
C6_Witness ==
    /\ C6_WithinInterval
    /\ g_type = "earnings"
    /\ g_age > 7 * 86400
    /\ g_pc = "return"
    /\ g_ret = 0

\* ---- C11 ---------------------------------------------------------------
\* the daily price rows stored before a call of save_ohlcv_data are all
\* stored after it, unchanged
C11_DailyRowsKept ==
    u_pc = "done" => u_before \sqsubseteq daily_prices

\* the quarterly rows stored before a quarterly sync are all stored after
\* it, unchanged
C11_QuarterlyRowsKept ==
    q_pc \in {"after", "except", "return", "raised"} =>
        q_rows0 \subseteq quarterly_results

\* C11: the incremental upsert never modifies a row that already exists:
\* after it every row stored before has the field values it had before,
\* daily prices and quarterly results alike.
C11_UpsertNeverUpdates ==
    C11_DailyRowsKept /\ C11_QuarterlyRowsKept

\* ---- C12 ---------------------------------------------------------------
\* no two checkpoint rows have the same stock and data type
C12_AtMostOne ==
    \A a \in sync_tracker, b \in sync_tracker :
        (a.stock_id = b.stock_id /\ a.data_type = b.data_type) => a = b

\* C12: after any sequence of sync attempts there is exactly one checkpoint
\* row for each stock and data type that has been attempted, and never more
\* than one: a sync of the daily syncer or of smart_sync_ohlcv that has
\* returned leaves an ohlcv checkpoint for its stock.
C12_OneCheckpointPerAttempt ==
    /\ C12_AtMostOne
    /\ pc = "return" => TrackerOf(sync_tracker, stock, "ohlcv") # {}
    /\ m_pc = "return" => TrackerOf(sync_tracker, m_stock, "ohlcv") # {}

\* ---- C13 ---------------------------------------------------------------
\* C13: reading the checkpoint of a stock and data type that has none
\* reports it as absent and creates no checkpoint row: the step in which a
\* sync reads its checkpoint leaves the checkpoint table as it was, and
\* gives None when there was no row.
C13_GetHasNoCreateOnRead ==
    [][(g_pc = "op" /\ g_pc' = "check") =>
          /\ sync_tracker' = sync_tracker
          /\ TrackerOf(sync_tracker, GateStock, g_type) = {} =>
                g_tracker' = Nothing]_vars

\* ---- C14 ---------------------------------------------------------------
\* C14: when there is no local record for the stock, validation yields
\* PASS: validate_ohlcv_data called with an absent local record returns
\* True.
C14_AbsentRecordPasses ==
    (v_result # "pending" /\ v_db = Nothing) => v_result = "True"

\* ---- C15 ---------------------------------------------------------------
\* a price field the claim says is skipped: the local value is 0 or None,
\* or the remote value is None
C15_Skipped(f) ==
    v_db[1][f] \in {0, NONE} \/ v_yahoo[f] = NONE

\* a price field that is compared and lies within the tolerance
C15_Within(f) ==
    /\ v_db[1][f] > 0
    /\ v_yahoo[f] >= 0
    /\ Abs(v_db[1][f] - v_yahoo[f]) * ToleranceDen <= ToleranceNum * v_db[1][f]

\* C15: a price field whose local value is 0 or None, or whose remote value
\* is None, is skipped and never makes the result FAIL: when every price
\* field is either skipped or within the tolerance, and the volumes agree,
\* validate_ohlcv_data returns True.
C15_SkippedFieldsNeverFail ==
    (/\ v_result # "pending"
     /\ v_db # Nothing
     /\ \A f \in PriceFields : C15_Skipped(f) \/ C15_Within(f)
     /\ C5_VolumeWithinTolerance) => v_result = "True"

\* ---- C16 ---------------------------------------------------------------
\* C16: when the provider fetch of a stock raised, sync_stock_ohlcv returns
\* with success False and with the stock's ohlcv checkpoint marked failed.
C16_FetchFailureMarkedFailed ==
    (pc = "return" /\ stock \in h_fetch_errors) =>
        /\ ~ret.success
        /\ \E t \in TrackerOf(sync_tracker, stock, "ohlcv") :
              t.sync_status = "failed"

\* ---- C17 ---------------------------------------------------------------
\* C17: when the storage operation of a smart sync has failed on its last
\* attempt, the sync returns 0 with the checkpoint of its data type marked
\* failed and holding the error text.
C17_ExhaustedMarkedFailed ==
    [][(g_pc = "except" /\ g_attempt = max_retries - 1 /\ g_pc' # "except") =>
          /\ g_pc' = "return"
          /\ g_ret' = 0
          /\ \E t \in TrackerOf(sync_tracker', GateStock, g_type) :
                t.sync_status = "failed" /\ t.error_message = "error"]_vars

\* ---- C18 ---------------------------------------------------------------
\* C18: get_cached_data returns an entry only when it was set less than
\* CACHE_TTL seconds before, however often it was read since; a get of a
\* cached entry set CACHE_TTL seconds or more before returns None and
\* leaves the key out of the cache; a get that returns an entry leaves the
\* entry's timestamp at the time it was set.
C18_NoStaleHit ==
    c_last.op = "get" =>
        /\ c_ret # Nothing =>
              /\ c_last.had
              /\ c_last.age < CACHE_TTL
              /\ CacheSlot(c_cache, c_last.key)[1].time = c_inserted[c_last.key]
        /\ (c_last.had /\ c_last.age >= CACHE_TTL) =>
              /\ c_ret = Nothing
              /\ c_last.key \notin CachedKeys(c_cache)
              /\ c_last.gone = {c_last.key}

\* an entry read before its expiry was returned, and the next get, at its
\* expiry, found it expired
C18_Witness ==
    /\ c_last.op = "get"
    /\ c_last.had
    /\ c_last.age = CACHE_TTL
    /\ c_last.gone_read # NONE
    /\ c_last.gone_read < now
    /\ c_ret = Nothing

C20_Decided == q_syncer = "smart" /\ q_count # NONE

\* 30 days or more have passed since the last attempt
C20_Due == q_age >= QuarterlyRecheckDays * SecondsPerDay

\* the checkpoint holds a data date less than 90 days before the local time
C20_FreshData ==
    /\ q_tracker[1].last_data_date # NONE
    /\ now + q_tz - q_tracker[1].last_data_date
          < QuarterlyFreshDays * SecondsPerDay

\* C20 as stated: with no row stored the sync goes on to the fetch; with
\* rows stored it goes on exactly when 30 days or more have passed since
\* the last attempt.
C20_Original ==
    C20_Decided =>
        /\ q_count = 0 => q_passed
        /\ q_count > 0 => (q_passed <=> C20_Due)

\* C20: with no row stored for the stock the sync goes on to the fetch,
\* whatever the time since the last attempt; with rows stored it goes on
\* exactly when 30 days or more have passed since the last attempt and the
\* checkpoint holds no data date less than 90 days old, and returns 0
\* without fetching otherwise.
C20_QuarterlyGating ==
    C20_Decided =>
        /\ q_count = 0 => q_passed
        /\ q_count > 0 => (q_passed <=> (C20_Due /\ ~C20_FreshData))
        /\ ~q_passed => (q_pc = "return" /\ q_ret = 0)

\* rows are stored and 30 days have passed since the last attempt, but the
\* latest quarter is 80 days old: the sync has returned without fetching
C20_Witness ==
    /\ C20_Decided
    /\ q_count > 0
    /\ C20_Due
    /\ C20_FreshData
    /\ ~q_passed
    /\ q_ret = 0

\* ---- C21 ---------------------------------------------------------------
\* the rows of another source stored before a quarterly sync are stored
\* after it, unchanged
C21_OtherSourceKept ==
    \A r \in q_rows0 : r.source = "Screener" => r \in quarterly_results

\* a quarter the BSE sync saved has a row of source BSE
C21_OwnRowWritten ==
    q_syncer = "bse" =>
        \A col \in q_data :
            \E r \in quarterly_results : /\ r.stock_id = GateStock
                                         /\ r.quarter = col.quarter
                                         /\ r.source = "BSE"

\* C21: a quarterly sync that has saved leaves every row of another source
\* as it was, and the row it saves for a quarter another source holds is
\* stored beside that source's row.
C21_SourcesIsolated ==
    (q_pc = "return" /\ quarterly_results # q_rows0) =>
        C21_OtherSourceKept /\ C21_OwnRowWritten

\* ---- C22 ---------------------------------------------------------------
\* C22: a sync_stock_ohlcv called with validate_only returns with the price
\* rows and the checkpoints it found when it was called.
C22_ValidateOnlyWritesNothing ==
    (pc = "return" /\ validate_only) =>
        /\ daily_prices = h_rows0
        /\ sync_tracker = h_tracker0

\* ---- C23 ---------------------------------------------------------------
\* a step adds a copy of row r to the store
C23_Inserts(r) == CopiesIn(r, daily_prices') > CopiesIn(r, daily_prices)

\* the rows of the stock that the upsert of this sync has inserted
C23_Inserted ==
    CountOf(daily_prices, stock)
      - (IF h_refresh = "rebuilt" THEN 0 ELSE CountOf(h_rows0, stock))

C24_CheckedAt == g_tracker[1].last_sync_time + g_age

\* C24: a smart sync that went past the staleness check and read the
\* provider returns with the checkpoint's last_sync_time at a time of this
\* attempt, whatever it saved.
C24_AttemptTimeUpdated ==
    (g_pc = "return" /\ g_fetches > 0) =>
        \E t \in TrackerOf(sync_tracker, GateStock, g_type) :
            t.last_sync_time >= C24_CheckedAt

\* ---- C25 ---------------------------------------------------------------
\* C25: when sync_stock_ohlcv is about to validate, the fetched row it hands
\* to validate_ohlcv_data has the date of the latest stored record it is
\* compared with.
C25_SameDateCompared ==
    pc = "validate" => LastRow(yahoo_data[1]).date = latest_db_data[1].date

\* ---- C26 ---------------------------------------------------------------
\* the first call of a behaviour found no checkpoint of its data type: the
\* one it read carries a time of the call itself
C26_NeverSynced ==
    /\ g_calls = 1
    /\ g_tracker # Nothing
    /\ g_tracker[1].last_sync_time >= GateTime

\* C26: a smart sync of a data type that has no checkpoint row is not
\* skipped as recently synced: once it has made the staleness check it
\* goes on to the provider.
C26_FirstSyncIsDue ==
    (C26_NeverSynced /\ g_age # NONE) => (g_pc = "fetch" \/ g_fetches > 0)

\* ---- C27 ---------------------------------------------------------------
\* C27: from the delete of a refresh until its rebuild has been inserted,
\* the stock's ohlcv checkpoint does not read success: a run that stops
\* there leaves no success checkpoint beside the emptied dataset.
C27_NoSuccessWhileRebuilding ==
    (pc # "none" /\ h_refresh = "deleted") =>
        \A t \in TrackerOf(sync_tracker, stock, "ohlcv") :
            t.sync_status # "success"

\* ---- C28 ---------------------------------------------------------------
\* the session of an attempt of safe_db_operation is open: the operation
\* is running, or its result is about to be committed
C28_SessionOpen == g_pc \in {"check", "fetch", "store", "commit"}

\* C28: a smart sync reads a provider property only while no session of
\* safe_db_operation is open, and only in the first attempt of the
\* operation: a retry never reads the provider again.
C28_NoFetchInSession ==
    [][g_fetches' > g_fetches => (~C28_SessionOpen /\ g_attempt = 0)]_vars

\* ---- C29 ---------------------------------------------------------------
\* the syncs triggered and not finished: tasks waiting to start, and the
\* task running
C29_Unfinished == a_queue + (IF a_pc = "task" THEN 1 ELSE 0)

\* C29: a trigger_daily_sync handled while a sync triggered before it has
\* not finished, its task running or still waiting to start, answers with
\* status 400 and adds no task.
C29_SecondTriggerRejected ==
    [][(a_triggers' > a_triggers /\ C29_Unfinished > 0) =>
          (a_response' = 400 /\ a_queue' = a_queue)]_vars

\* ---- C30 ---------------------------------------------------------------
\* C30: when the handler of a failed sync_stock_ohlcv writes the stock's
\* checkpoint, the checkpoint reads failed with a count of 0 and keeps the
\* last_data_date it held before.
C30_FailureKeepsDataDate ==
    [][(pc = "except" /\ sync_tracker' # sync_tracker) =>
          \A t \in TrackerOf(sync_tracker, stock, "ohlcv") :
              \E u \in TrackerOf(sync_tracker', stock, "ohlcv") :
                  /\ u.sync_status = "failed"
                  /\ u.records_count = 0
                  /\ u.last_data_date = t.last_data_date]_vars

=============================================================================
